---- MODULE Spec2Model ----
(***************************************************************************)
(* Model of the Z-Forge signed-distance engine: the Surface Nets mesher    *)
(* (generateIsosurfaceGeometry), the scalar field evaluator                *)
(* (createSDFEvaluator) and the transform resolvers of                     *)
(* src/z-forge-web-sculptor/utils/sdf.ts.                                  *)
(*                                                                         *)
(* Arrays keep the source's 0-based indices: a typed array is a function   *)
(* on 0..n-1, a growing JS array is a sequence whose k-th pushed element   *)
(* has index k-1.                                                          *)
(***************************************************************************)
EXTENDS Integers, Sequences, FiniteSets, TLC

VARIABLES
  \* --- one run of the mesher on a sampled grid (sdf.ts 473-783) ---
  mpc,               \* "sampled" -> "placed" -> "meshed"
  gridRes,           \* dims[0] = dims[1] = dims[2]
  values,            \* the Float32Array of corner samples
  cellToVertMap,     \* Map<cell index, vertex index>
  vertices,          \* one record per pushed vertex
  skipped,           \* cells that took the `count > 0` else-path (no vertex)
  quads,             \* 4 loop indices per emitted quad
  indices,           \* triangle index buffer
  wireframeIndices,  \* wireframe edge index buffer
  edgeSet,           \* keys of the edges already pushed
  \* --- one evaluation pass over a node snapshot (sdf.ts 40-218, 405-470) ---
  meshes,            \* the MeshNode[] snapshot handed to the pass
  blendStrength,     \* k of smin / smax
  resolver,          \* which code runs: "evaluator", "bounds", "bones", "none"
  matrixCache,       \* the resolver's memo table (matrixCache / worldMatrixMap)
  next,              \* index in meshes of the next node the pass handles
  lastId,            \* id handed to the resolver by the latest call
  segments,          \* extractBones: the bone segments pushed so far
  ppc,               \* "init", "run", "ready", "evaluated", "done",
                     \* "RangeError" (stack exhausted), "hang" (endless loop)
  items,             \* createSDFEvaluator: the pre-processed items
  probe,             \* query point of the latest evaluator call
  probeD,            \* d = evaluate(probe): the value returned for probe
  \* --- the head of generateIsosurfaceGeometry (sdf.ts 405-473) ---
  gpc,               \* "call", "returned" (early), "sampling", "RangeError"
  resolution,        \* the resolution argument
  box,               \* the bounds estimate
  step,              \* the grid step vector
  numSamples,        \* length of the allocated sample array
  evaluatorBuilt,    \* createSDFEvaluator has been called
  \* --- successive calls of generateIsosurfaceGeometry (sdf.ts 405-806) ---
  history,           \* per argument list: what its first call returned, and
                     \* how often it was called
  positions,         \* the position attribute of the returned geometry, one
                     \* point per vertex
  wirePositions,     \* the position attribute seen through
                     \* geometry.userData.quadWireframe
  \* --- refineMesh (sdf.ts 222-401) ---
  rpc,               \* "idle", "relax" (in the iteration loop), "written"
  iter,              \* the loop variable of the iteration loop
  currentPositions,  \* positions read in an iteration
  nextPositions,     \* positions written in an iteration
  done,              \* vertex indices the vertex loop has visited in this
                     \* iteration
  reference,         \* currentPositions as the loop in index order has them
                     \* after iter iterations
  \* --- the sampling loop run as parallel tasks (sdf.ts 476-485) ---
  nextCorner,        \* the next corner index to be handed to a task
  tasks,             \* the tasks in flight: corner, position in the loop body,
                     \* value read
  \* --- the zustand store and its callers (store.ts 61-160) ---
  arrays,            \* the heap's arrays: per array the references of its
                     \* elements
  objects,           \* the heap's node objects
  state,             \* the store state: meshes (a reference to an array) and
                     \* selectedMeshId
  bake,              \* the array the pending bake callback has captured, or
                     \* 0 (no callback pending)
  deferred,          \* store calls made since that callback was scheduled
  uuids,             \* the ids uuidv4 has not handed out yet
  outcome            \* how the latest call on the store ended: "returned",
                     \* "RangeError" (thrown), "hang" (endless loop)

meshVars == <<mpc, gridRes, values, cellToVertMap, vertices, skipped, quads,
              indices, wireframeIndices, edgeSet>>

passVars == <<meshes, blendStrength, resolver, matrixCache, next, lastId,
              segments, ppc, items, probe, probeD>>

genVars == <<gpc, resolution, box, step, numSamples, evaluatorBuilt>>

callVars == <<history, positions, wirePositions>>

refineVars == <<rpc, iter, currentPositions, nextPositions, done, reference>>

taskVars == <<nextCorner, tasks>>

storeVars == <<arrays, objects, state, bake, deferred, uuids, outcome>>

vars == <<meshVars, passVars, genVars, callVars, refineVars, taskVars,
          storeVars>>

----------------------------------------------------------------------------
\* Bounds of the model.

\* largest per-axis cell count of a modelled grid
MaxGridRes == 2
\* grids of more than one cell: number of scattered corners that differ from
\* the background
MaxFlipped == 1

\* most nodes listed in a snapshot the evaluator is built on (besides the
\* container)
MaxItems == 3

\* most nodes of a snapshot the mesher is called on (besides the container)
MaxGenNodes == 2

\* most nodes of a snapshot handed to a transform resolver (besides the
\* container)
MaxNodes == 3

\* deepest nesting of resolver calls the stack holds
StackLimit == 4

\* most parents the walk of extractBones gathers
WalkLimit == 4

\* resolution of a rounded square root: results are multiples of
\* 1 / SqrtScale
SqrtScale == 64

\* calls of the mesher followed in one behaviour
MaxCalls == 3

\* the tasks of a parallel step in flight at a time are at most MaxTasks
MaxTasks == 2

\* sample values a grid corner may hold (finite numbers; 0 is on the surface)
SampleVals == {-1, 0, 1}

----------------------------------------------------------------------------
\* Index arithmetic of the grid.

CornerIndex(n, x, y, z) == x + y * (n + 1) + z * (n + 1) * (n + 1)

CellIndex(n, x, y, z) == x + y * n + z * n * n

NumCorners(n) == (n + 1) * (n + 1) * (n + 1)

NumCells(n) == n * n * n

\* corner offsets of a cell in the order of the mask bits 1,2,4,...,128
CellCorners ==
  << <<0,0,0>>, <<1,0,0>>, <<0,1,0>>, <<1,1,0>>,
     <<0,0,1>>, <<1,0,1>>, <<0,1,1>>, <<1,1,1>> >>

\* the 12 cell edges in the order the source tests them (X, then Y, then
\* Z), each as the positions of its two corners in CellCorners
CellEdges ==
  << <<1, 2>>, <<3, 4>>, <<5, 6>>, <<7, 8>>,
     <<1, 3>>, <<2, 4>>, <<5, 7>>, <<6, 8>>,
     <<1, 5>>, <<2, 6>>, <<3, 7>>, <<4, 8>> >>

\* v000, v100, v010, v110, v001, v101, v011, v111 of cell (x,y,z)
CornerSamples(vals, n, x, y, z) ==
  [k \in 1..8 |->
     vals[CornerIndex(n, x + CellCorners[k][1], y + CellCorners[k][2],
                      z + CellCorners[k][3])]]

\* mutant of MaskBit: a corner on the surface counted as outside (>= for >)
MaskBitGe(v, w) == IF v >= 0 THEN w ELSE 0

\* v > 0 ? w : 0
MaskBit(v, w) == IF v > 0 THEN w ELSE 0

\* mask = (v000 > 0 ? 1 : 0) | (v100 > 0 ? 2 : 0) | ... | (v111 > 0 ? 128 : 0)
\* (the bits are distinct, so | is +)
Mask(v) ==
    MaskBit(v[1], 1) + MaskBit(v[2], 2) + MaskBit(v[3], 4)
  + MaskBit(v[4], 8) + MaskBit(v[5], 16) + MaskBit(v[6], 32)
  + MaskBit(v[7], 64) + MaskBit(v[8], 128)

\* (va > 0) !== (vb > 0)
SignChange(va, vb) == (va > 0) # (vb > 0)

\* count after the 12 edge tests of one cell
CrossingCount(v) ==
  Cardinality({e \in 1..12 :
                 SignChange(v[CellEdges[e][1]], v[CellEdges[e][2]])})

----------------------------------------------------------------------------
\* Vertex placement: the z / y / x cell loop.

\* vertices.push(...); cellToVertMap.set(cell, vertices.length / 3 - 1)
PushVertex(acc, cell, count) ==
  [acc EXCEPT
     !.verts = Append(@, [cell |-> cell, count |-> count]),
     !.map = [k \in (DOMAIN @) \cup {cell} |->
                IF k = cell THEN Len(acc.verts) ELSE @[k]]]

\* the tail of the loop body: if (count > 0) { ... }
PlaceCounted(acc, cell, count) ==
  IF count > 0 THEN PushVertex(acc, cell, count)
  ELSE [acc EXCEPT !.skip = @ \cup {cell}]

\* one iteration of the cell loop, v the 8 corner samples of the cell
PlaceCell(acc, cell, v) ==
  IF Mask(v) \in {0, 255} THEN acc
  ELSE PlaceCounted(acc, cell, CrossingCount(v))

\* the loop visits the cells in increasing cell index (x fastest, z slowest)
RECURSIVE PlaceFrom(_, _, _, _)
PlaceFrom(vals, n, c, acc) ==
  IF c >= NumCells(n) THEN acc
  ELSE PlaceFrom(vals, n, c + 1,
         PlaceCell(acc, CellIndex(n, c % n, (c \div n) % n, c \div (n * n)),
                   CornerSamples(vals, n, c % n, (c \div n) % n,
                                 c \div (n * n))))

EmptyMap == [k \in {} |-> 0]

SetPlaced(r) ==
  /\ vertices' = r.verts
  /\ cellToVertMap' = r.map
  /\ skipped' = r.skip

PlaceVertices ==
  /\ mpc = "sampled"
  /\ SetPlaced(PlaceFrom(values, gridRes, 0,
                         [verts |-> <<>>, map |-> EmptyMap, skip |-> {}]))
  /\ mpc' = "placed"
  /\ UNCHANGED <<gridRes, values, quads, indices, wireframeIndices, edgeSet>>
  /\ UNCHANGED <<passVars, genVars>>
  /\ UNCHANGED <<callVars, refineVars, taskVars>>
  /\ UNCHANGED storeVars

----------------------------------------------------------------------------
\* Quad emission: addEdge, addQuad and the X / Y / Z edge loops.

\* a key that keeps the order of its arguments
EdgeKeyDirected(a, b) == <<a, b>>

\* const key = `${i0},${i1}`
EdgeKey(a, b) == <<IF a < b THEN a ELSE b, IF a < b THEN b ELSE a>>

addEdge(acc, a, b) ==
  IF EdgeKey(a, b) \in acc.edgeSet THEN acc
  ELSE [acc EXCEPT !.edgeSet = @ \cup {EdgeKey(a, b)},
                   !.wire = @ \o EdgeKey(a, b)]

\* outcome of `fn . nGrad < 0` for the k-th emitted quad (k from 0).  The
\* test evaluates the field between grid corners, which the sample array
\* does not determine: a pass on a sample array alone draws one of these
\* outcome patterns, a pass on a field has the outcomes of its tests as a
\* sequence (WindingOutcomes).
Pattern(name) == [name |-> name, outcomes |-> <<>>]

WindingModes == {Pattern(n) : n \in {"never", "always", "odd", "even"}}

\* the outcomes of the tests of a pass, in the order of its quads
Outcomes(seq) == [name |-> "field", outcomes |-> seq]

WindingReversed(mode, k) ==
  CASE mode.name = "never" -> FALSE
    [] mode.name = "always" -> TRUE
    [] mode.name = "odd" -> k % 2 = 1
    [] mode.name = "even" -> k % 2 = 0
    [] OTHER -> mode.outcomes[k + 1]

\* the initial loop order: flipHint ? v0,v1,v3,v2 : v0,v2,v3,v1
QuadLoop(v0, v1, v2, v3, flipHint) ==
  IF flipHint THEN <<v0, v1, v3, v2>> ELSE <<v0, v2, v3, v1>>

\* reverse loop: q0 -> q3 -> q2 -> q1
ReverseLoop(q) == <<q[1], q[4], q[3], q[2]>>

\* indices.push(q0, q1, q2, q0, q2, q3)
QuadTriangles(q) == <<q[1], q[2], q[3], q[1], q[3], q[4]>>

\* a body that also lists the two diagonals of the quad
PushQuadDiagonals(acc, q) ==
  addEdge(addEdge(addEdge(addEdge(addEdge(addEdge(
    [acc EXCEPT !.quads = Append(@, q), !.indices = @ \o QuadTriangles(q)],
    q[1], q[2]), q[2], q[3]), q[3], q[4]), q[4], q[1]), q[1], q[3]),
    q[2], q[4])

\* the part of addQuad after the winding test, q the final loop
PushQuad(acc, q) ==
  addEdge(addEdge(addEdge(addEdge(
    [acc EXCEPT !.quads = Append(@, q), !.indices = @ \o QuadTriangles(q)],
    q[1], q[2]), q[2], q[3]), q[3], q[4]), q[4], q[1])

addQuad(acc, map, c0, c1, c2, c3, flipHint, mode) ==
  IF ~({c0, c1, c2, c3} \subseteq DOMAIN map) THEN acc
  ELSE IF WindingReversed(mode, Len(acc.quads))
    THEN PushQuad(acc, ReverseLoop(
                         QuadLoop(map[c0], map[c1], map[c2], map[c3], flipHint)))
    ELSE PushQuad(acc, QuadLoop(map[c0], map[c1], map[c2], map[c3], flipHint))

\* mutant of ZLoopLen: the z loop stops one layer early
ZLoopLenShort(n) == (n - 1) * (n - 1) * (n - 1)

\* number of iterations of each edge loop
XLoopLen(n) == (n - 1) * (n - 1) * n
YLoopLen(n) == (n - 1) * n * (n - 1)
ZLoopLen(n) == n * (n - 1) * (n - 1)

\* k-th iteration (k from 0) of: for z in 1..n-1, y in 1..n-1, x in 0..n-1
XLoopAt(n, k) ==
  <<k % n, 1 + ((k \div n) % (n - 1)), 1 + (k \div (n * (n - 1)))>>

\* k-th iteration of: for z in 1..n-1, y in 0..n-1, x in 1..n-1
YLoopAt(n, k) ==
  <<1 + (k % (n - 1)), (k \div (n - 1)) % n, 1 + (k \div ((n - 1) * n))>>

\* k-th iteration of: for z in 0..n-1, y in 1..n-1, x in 1..n-1
ZLoopAt(n, k) ==
  <<1 + (k % (n - 1)), 1 + ((k \div (n - 1)) % (n - 1)),
    k \div ((n - 1) * (n - 1))>>

\* one iteration of the X loop at corner (x,y,z); a = values[i0], b = values[i1]
XQuadStep(n, map, mode, acc, x, y, z, a, b) ==
  IF SignChange(a, b)
    THEN addQuad(acc, map,
                 CellIndex(n, x, y - 1, z - 1), CellIndex(n, x, y, z - 1),
                 CellIndex(n, x, y - 1, z), CellIndex(n, x, y, z),
                 a > 0, mode)
    ELSE acc

\* one iteration of the Y loop at corner (x,y,z); a = values[i0], b = values[i1]
YQuadStep(n, map, mode, acc, x, y, z, a, b) ==
  IF SignChange(a, b)
    THEN addQuad(acc, map,
                 CellIndex(n, x - 1, y, z - 1), CellIndex(n, x, y, z - 1),
                 CellIndex(n, x - 1, y, z), CellIndex(n, x, y, z),
                 a < 0, mode)
    ELSE acc

\* one iteration of the Z loop at corner (x,y,z); a = values[i0], b = values[i1]
ZQuadStep(n, map, mode, acc, x, y, z, a, b) ==
  IF SignChange(a, b)
    THEN addQuad(acc, map,
                 CellIndex(n, x - 1, y - 1, z), CellIndex(n, x, y - 1, z),
                 CellIndex(n, x - 1, y, z), CellIndex(n, x, y, z),
                 a > 0, mode)
    ELSE acc

XQuadAt(vals, n, map, mode, acc, p) ==
  XQuadStep(n, map, mode, acc, p[1], p[2], p[3],
            vals[CornerIndex(n, p[1], p[2], p[3])],
            vals[CornerIndex(n, p[1] + 1, p[2], p[3])])

RECURSIVE XQuads(_, _, _, _, _, _)
XQuads(vals, n, map, mode, k, acc) ==
  IF k >= XLoopLen(n) THEN acc
  ELSE XQuads(vals, n, map, mode, k + 1,
              XQuadAt(vals, n, map, mode, acc, XLoopAt(n, k)))

YQuadAt(vals, n, map, mode, acc, p) ==
  YQuadStep(n, map, mode, acc, p[1], p[2], p[3],
            vals[CornerIndex(n, p[1], p[2], p[3])],
            vals[CornerIndex(n, p[1], p[2] + 1, p[3])])

RECURSIVE YQuads(_, _, _, _, _, _)
YQuads(vals, n, map, mode, k, acc) ==
  IF k >= YLoopLen(n) THEN acc
  ELSE YQuads(vals, n, map, mode, k + 1,
              YQuadAt(vals, n, map, mode, acc, YLoopAt(n, k)))

ZQuadAt(vals, n, map, mode, acc, p) ==
  ZQuadStep(n, map, mode, acc, p[1], p[2], p[3],
            vals[CornerIndex(n, p[1], p[2], p[3])],
            vals[CornerIndex(n, p[1], p[2], p[3] + 1)])

RECURSIVE ZQuads(_, _, _, _, _, _)
ZQuads(vals, n, map, mode, k, acc) ==
  IF k >= ZLoopLen(n) THEN acc
  ELSE ZQuads(vals, n, map, mode, k + 1,
              ZQuadAt(vals, n, map, mode, acc, ZLoopAt(n, k)))

\* the three loops in source order: X, then Y, then Z
AllQuads(vals, n, map, mode) ==
  ZQuads(vals, n, map, mode, 0,
    YQuads(vals, n, map, mode, 0,
      XQuads(vals, n, map, mode, 0,
        [quads |-> <<>>, indices |-> <<>>, wire |-> <<>>, edgeSet |-> {}])))

SetMesh(r) ==
  /\ quads' = r.quads
  /\ indices' = r.indices
  /\ wireframeIndices' = r.wire
  /\ edgeSet' = r.edgeSet

EmitQuads ==
  /\ mpc = "placed"
  /\ \E mode \in WindingModes :
       SetMesh(AllQuads(values, gridRes, cellToVertMap, mode))
  /\ mpc' = "meshed"
  /\ UNCHANGED <<gridRes, values, cellToVertMap, vertices, skipped>>
  /\ UNCHANGED <<passVars, genVars>>
  /\ UNCHANGED <<callVars, refineVars, taskVars>>
  /\ UNCHANGED storeVars

----------------------------------------------------------------------------
\* JavaScript numbers.  A number is a pair <<n, d>> in lowest terms: d > 0
\* is the rational n/d, <<1, 0>> and <<-1, 0>> are +Infinity and -Infinity,
\* <<0, 0>> is NaN (signed zeros are not told apart).

NaN == <<0, 0>>

Sgn(n) == IF n > 0 THEN 1 ELSE IF n < 0 THEN -1 ELSE 0

AbsI(n) == IF n < 0 THEN -n ELSE n

RECURSIVE GCD(_, _)
GCD(a, b) == IF b = 0 THEN a ELSE GCD(b, a % b)

Reduce(n, d, g) == <<(Sgn(d) * n) \div g, AbsI(d) \div g>>

Norm(n, d) ==
  IF d = 0 THEN <<Sgn(n), 0>> ELSE Reduce(n, d, GCD(AbsI(n), AbsI(d)))

Num(n) == <<n, 1>>

Frac(n, d) == Norm(n, d)

IsNaN(a) == a = NaN

IsFinite(a) == a[2] # 0

\* a + b over the common denominator a[2] * b[2] / g, g = GCD(a[2], b[2])
AddOver(a, b, g) ==
  Norm(a[1] * (b[2] \div g) + b[1] * (a[2] \div g), (a[2] \div g) * b[2])

\* a + b (Infinity + -Infinity is NaN)
Add(a, b) ==
  IF a[2] = 0 /\ b[2] = 0 THEN (IF a = b THEN a ELSE NaN)
  ELSE IF a[2] = 0 THEN a
  ELSE IF b[2] = 0 THEN b
  ELSE AddOver(a, b, GCD(a[2], b[2]))

Neg(a) == <<-a[1], a[2]>>

Sub(a, b) == Add(a, Neg(b))

\* a * b with the common factors g = GCD(|a[1]|, b[2]) and h = GCD(|b[1]|,
\* a[2]) cancelled first
MulOver(a, b, g, h) ==
  <<(a[1] \div g) * (b[1] \div h), (a[2] \div h) * (b[2] \div g)>>

\* a * b (0 * Infinity is NaN)
Mul(a, b) ==
  IF a[2] = 0 \/ b[2] = 0 THEN Norm(a[1] * b[1], a[2] * b[2])
  ELSE IF a[1] = 0 \/ b[1] = 0 THEN <<0, 1>>
  ELSE MulOver(a, b, GCD(AbsI(a[1]), b[2]), GCD(AbsI(b[1]), a[2]))

\* 1 / b (1 / 0 is Infinity)
Inv(b) == IF b[1] < 0 THEN <<-b[2], -b[1]>> ELSE <<b[2], b[1]>>

\* a / b (0 / 0 is NaN)
Div(a, b) == Mul(a, Inv(b))

\* a < b for finite a, b, g = GCD(a[2], b[2])
LessOver(a, b, g) == a[1] * (b[2] \div g) < b[1] * (a[2] \div g)

\* a < b (false when either is NaN)
Less(a, b) ==
  /\ ~IsNaN(a)
  /\ ~IsNaN(b)
  /\ IF a[2] = 0 \/ b[2] = 0 THEN a[1] * b[2] < b[1] * a[2] \/
                                    (a[2] = 0 /\ b[2] = 0 /\ a[1] < b[1])
     ELSE LessOver(a, b, GCD(a[2], b[2]))

MathAbs(a) == <<AbsI(a[1]), a[2]>>

\* Math.max / Math.min return NaN when an argument is NaN
MathMax(a, b) ==
  IF IsNaN(a) \/ IsNaN(b) THEN NaN ELSE IF Less(a, b) THEN b ELSE a

MathMin(a, b) ==
  IF IsNaN(a) \/ IsNaN(b) THEN NaN ELSE IF Less(b, a) THEN b ELSE a

\* Math.floor (NaN and the infinities are their own floor)
MathFloor(a) == IF a[2] = 0 THEN a ELSE Num(a[1] \div a[2])

----------------------------------------------------------------------------
\* THREE.Vector3 and THREE.Matrix4.  A vector is a triple of numbers.  The
\* nodes of the model are unrotated with a uniform scale, so a matrix
\* T * R * S is the map p |-> s * p + t, kept as the record [s, t].

Vec(x, y, z) == <<x, y, z>>

ZeroVec == Vec(Num(0), Num(0), Num(0))

VAdd(u, v) == <<Add(u[1], v[1]), Add(u[2], v[2]), Add(u[3], v[3])>>

VSub(u, v) == <<Sub(u[1], v[1]), Sub(u[2], v[2]), Sub(u[3], v[3])>>

VScale(c, v) == <<Mul(c, v[1]), Mul(c, v[2]), Mul(c, v[3])>>

\* Vector3.lengthSq
LengthSq(v) == Add(Add(Mul(v[1], v[1]), Mul(v[2], v[2])), Mul(v[3], v[3]))

\* largest integer whose square is at most n, searched in lo..hi
RECURSIVE ISqrt(_, _, _)
ISqrt(n, lo, hi) ==
  IF lo >= hi THEN lo
  ELSE IF ((lo + hi + 1) \div 2) * ((lo + hi + 1) \div 2) <= n
    THEN ISqrt(n, (lo + hi + 1) \div 2, hi)
    ELSE ISqrt(n, lo, ((lo + hi + 1) \div 2) - 1)

\* Math.sqrt of a number >= 0, rounded down to a multiple of 1 / SqrtScale
\* (a double rounds too, to 53 bits); ScaledFloor(n, d) is the integer part
\* of n * SqrtScale^2 / d
ScaledFloor(n, d) ==
    (n \div d) * SqrtScale * SqrtScale
  + (((n % d) * SqrtScale) \div d) * SqrtScale
  + ((((n % d) * SqrtScale) % d) * SqrtScale) \div d

MathSqrt(a) ==
  IF ~IsFinite(a) THEN a
  ELSE Frac(ISqrt(ScaledFloor(a[1], a[2]),
                  SqrtScale * ISqrt(a[1] \div a[2], 0, a[1] \div a[2]),
                  SqrtScale * (1 + ISqrt(a[1] \div a[2], 0, a[1] \div a[2]))),
            SqrtScale)

\* the vector lies on a coordinate axis
OnAxis(v) ==
  Cardinality({i \in 1..3 : v[i] # Num(0)}) <= 1

\* a result rounded as an operation on doubles rounds it, here towards
\* zero to a multiple of 1 / SqrtScale
Fround(a) ==
  IF ~IsFinite(a) THEN a
  ELSE Frac(Sgn(a[1]) * ((AbsI(a[1]) \div a[2]) * SqrtScale
                         + ((AbsI(a[1]) % a[2]) * SqrtScale) \div a[2]),
            SqrtScale)

VFround(v) == <<Fround(v[1]), Fround(v[2]), Fround(v[3])>>

\* Vector3.length = sqrt(x^2 + y^2 + z^2); for a vector along one
\* coordinate axis this is |x| + |y| + |z| exactly, for another the
\* operands and the root are rounded
Length(v) ==
  IF OnAxis(v) THEN Add(Add(MathAbs(v[1]), MathAbs(v[2])), MathAbs(v[3]))
  ELSE MathSqrt(LengthSq(VFround(v)))

\* new THREE.Matrix4()
Identity == [s |-> Num(1), t |-> Vec(Num(0), Num(0), Num(0))]

\* Matrix4.compose(position, identity quaternion, (scale, scale, scale))
Compose(position, scale) == [s |-> scale, t |-> position]

\* a.clone().multiply(b): apply b, then a
Multiply(a, b) == [s |-> Mul(a.s, b.s), t |-> VAdd(VScale(a.s, b.t), a.t)]

\* Matrix4.invert (for s # 0)
Invert(m) == [s |-> Inv(m.s), t |-> VScale(Neg(Inv(m.s)), m.t)]

\* Vector3.applyMatrix4
ApplyMatrix4(p, m) == VAdd(VScale(m.s, p), m.t)

\* Matrix4.decompose: the scale vector (sx is negated when det < 0)
DecomposeScale(m) ==
  Vec(IF Less(m.s, Num(0)) THEN Neg(MathAbs(m.s)) ELSE MathAbs(m.s),
      MathAbs(m.s), MathAbs(m.s))

\* Matrix4.decompose / setFromMatrixPosition: the translation
MatrixPosition(m) == m.t

----------------------------------------------------------------------------
\* Nodes and the snapshot.  A node is the record
\*   [id, type, operation, position, scale, parentId]
\* of a MeshNode (rotation is (0,0,0) throughout); parentId is null or an id.

null == "null"

PROCEDURE_MESH_ID == "PROCEDURE_MESH_ROOT"

\* meshMap.has(id)
meshMapHas(ms, id) == \E i \in 1..Len(ms) : ms[i].id = id

\* meshMap.get(id): meshes.forEach(m => meshMap.set(m.id, m)) keeps the last
\* node of an id
meshMapGet(ms, id) ==
  ms[CHOOSE i \in 1..Len(ms) :
       ms[i].id = id /\ \A j \in (i + 1)..Len(ms) : ms[j].id # id]

\* localMatrix.compose(position, rotation, (scale, scale, scale))
LocalMatrix(mesh) == Compose(mesh.position, mesh.scale)

\* map.set(id, m)
CacheSet(cache, id, m) ==
  [k \in (DOMAIN cache) \cup {id} |-> IF k = id THEN m ELSE cache[k]]

EmptyCache == [k \in {} |-> Identity]

----------------------------------------------------------------------------
\* SDF primitives and smooth operators (sdf.ts 6-36).

sdSphere(p, r) == Sub(Length(p), r)

\* x, y, z are Math.abs(p.c) - b.c
sdBoxOf(x, y, z) ==
  Add(MathMin(MathMax(x, MathMax(y, z)), Num(0)),
      Length(Vec(MathMax(x, Num(0)), MathMax(y, Num(0)), MathMax(z, Num(0)))))

sdBox(p, b) ==
  sdBoxOf(Sub(MathAbs(p[1]), b[1]), Sub(MathAbs(p[2]), b[2]),
          Sub(MathAbs(p[3]), b[3]))

\* halfH = h / 2; py = p.y - max(-halfH, min(halfH, p.y))
sdCapsuleOf(p, halfH, r) ==
  Sub(Length(Vec(p[1],
                 Sub(p[2], MathMax(Neg(halfH), MathMin(halfH, p[2]))),
                 p[3])),
      r)

sdCapsule(p, h, r) == sdCapsuleOf(p, Div(h, Num(2)), r)

\* h = Math.max(k - Math.abs(a - b), 0.0) / k
BlendH(a, b, k) == Div(MathMax(Sub(k, MathAbs(Sub(a, b))), Num(0)), k)

\* h * h * k * 0.25
BlendTerm(h, k) == Mul(Mul(Mul(h, h), k), Frac(1, 4))

smin(a, b, k) == Sub(MathMin(a, b), BlendTerm(BlendH(a, b, k), k))

smax(a, b, k) == Add(MathMax(a, b), BlendTerm(BlendH(a, b, k), k))

----------------------------------------------------------------------------
\* createSDFEvaluator (sdf.ts 40-139).

\* result of a resolver call: the memo table after it, the matrix returned,
\* and ok = FALSE when the call did not return
Returned(cache, m) == [cache |-> cache, m |-> m, ok |-> TRUE]

NotReturned(cache) == [cache |-> cache, m |-> Identity, ok |-> FALSE]

\* mutant of WorldFromParent: the local matrix multiplied by the parent's
\* (local * parent for parent * local)
WorldFromParentSwapped(r, id, local) ==
  IF r.ok
    THEN Returned(CacheSet(r.cache, id, Multiply(local, r.m)),
                  Multiply(local, r.m))
    ELSE r

\* lines 65-68, r the result of getWorldMatrix(mesh.parentId)
WorldFromParent(r, id, local) ==
  IF r.ok
    THEN Returned(CacheSet(r.cache, id, Multiply(r.m, local)),
                  Multiply(r.m, local))
    ELSE r

RECURSIVE getWorldMatrix(_, _, _, _)

\* lines 56-72, mesh = meshMap.get(id)
WorldOfMesh(ms, cache, id, mesh, depth) ==
  IF mesh.parentId # null /\ meshMapHas(ms, mesh.parentId)
    THEN WorldFromParent(getWorldMatrix(ms, cache, mesh.parentId, depth + 1),
                         id, LocalMatrix(mesh))
    ELSE Returned(CacheSet(cache, id, LocalMatrix(mesh)), LocalMatrix(mesh))

\* getWorldMatrix(id) as the depth-th nested call; a call nested deeper than
\* the stack allows throws RangeError
getWorldMatrix(ms, cache, id, depth) ==
  IF depth > StackLimit THEN NotReturned(cache)
  ELSE IF id \in DOMAIN cache THEN Returned(cache, cache[id])
  ELSE IF ~meshMapHas(ms, id) THEN Returned(cache, Identity)
  ELSE WorldOfMesh(ms, cache, id, meshMapGet(ms, id), depth)

\* meshes.filter(m => m.id !== 'PROCEDURE_MESH_ROOT')
NotContainer(m) == m.id # PROCEDURE_MESH_ID

\* hidden nodes are left out as well
activeShown(ms) == SelectSeq(ms, LAMBDA m : NotContainer(m) /\ m.visible)

activeMeshes(ms) == SelectSeq(ms, NotContainer)

\* scale = (scl.x + scl.y + scl.z) / 3
AverageScale(scl) == Div(Add(Add(scl[1], scl[2]), scl[3]), Num(3))

\* lines 80-96
MakeItem(mesh, worldMatrix) ==
  [type |-> mesh.type, operation |-> mesh.operation,
   inverseMatrix |-> Invert(worldMatrix),
   scale |-> AverageScale(DecomposeScale(worldMatrix))]

\* one callback of activeMeshes.map, r the result of getWorldMatrix(mesh.id)
PushItem(st, mesh, r) ==
  IF r.ok
    THEN [cache |-> r.cache, items |-> Append(st.items, MakeItem(mesh, r.m)),
          ok |-> TRUE]
    ELSE [st EXCEPT !.ok = FALSE]

RECURSIVE BuildItems(_, _, _, _)
BuildItems(ms, act, i, st) ==
  IF i > Len(act) \/ ~st.ok THEN st
  ELSE BuildItems(ms, act, i + 1,
         PushItem(st, act[i], getWorldMatrix(ms, st.cache, act[i].id, 1)))

ItemsOf(ms) ==
  BuildItems(ms, activeMeshes(ms), 1,
             [cache |-> EmptyCache, items |-> <<>>, ok |-> TRUE])

\* lines 110-117: the primitive of an item at the local point
PrimitiveDist(type, localP) ==
  IF type = "cube"
    THEN sdBox(localP, Vec(Frac(1, 2), Frac(1, 2), Frac(1, 2)))
  ELSE IF type = "capsule" THEN sdCapsule(localP, Num(1), Frac(1, 2))
  ELSE sdSphere(localP, Frac(1, 2))

\* lines 107-120: dist after `dist *= item.scale`
ItemDist(item, p) ==
  Mul(PrimitiveDist(item.type, ApplyMatrix4(p, item.inverseMatrix)),
      item.scale)

\* mutant of Combine: the first item is combined with the initial d = 10000
\* like every other item
CombineNoSeed(dd, first, operation, dist, k) ==
  IF operation = "subtract" THEN smax(dd, Neg(dist), k)
  ELSE IF operation = "intersect" THEN smax(dd, dist, k)
  ELSE smin(dd, dist, k)

\* lines 123-134
Combine(dd, first, operation, dist, k) ==
  IF first THEN dist
  ELSE IF operation = "subtract" THEN smax(dd, Neg(dist), k)
  ELSE IF operation = "intersect" THEN smax(dd, dist, k)
  ELSE smin(dd, dist, k)

\* the for loop of the evaluator from item i on
RECURSIVE EvalLoop(_, _, _, _, _, _)
EvalLoop(its, k, p, i, dd, first) ==
  IF i > Len(its) THEN dd
  ELSE EvalLoop(its, k, p, i + 1,
                Combine(dd, first, its[i].operation, ItemDist(its[i], p), k),
                FALSE)

\* let d = 10000.0; let first = true; ...; return d
evaluate(its, k, p) == EvalLoop(its, k, p, 1, Num(10000), TRUE)

SetEvaluator(st) ==
  /\ items' = st.items
  /\ matrixCache' = st.cache
  /\ ppc' = IF st.ok THEN "ready" ELSE "RangeError"

createSDFEvaluator ==
  /\ ppc = "init"
  /\ resolver = "evaluator"
  /\ SetEvaluator(ItemsOf(meshes))
  /\ UNCHANGED <<meshes, blendStrength, resolver, next, lastId, segments,
                 probe, probeD>>
  /\ UNCHANGED <<meshVars, genVars>>
  /\ UNCHANGED <<callVars, refineVars, taskVars>>
  /\ UNCHANGED storeVars

\* points the evaluator is queried at (on the Y axis)
Probes ==
  {Vec(Num(0), y, Num(0)) : y \in {Frac(1, 4), Frac(3, 2), Num(3)}}

Evaluate ==
  /\ ppc = "ready"
  /\ \E p \in Probes :
       /\ probe' = p
       /\ probeD' = evaluate(items, blendStrength, p)
  /\ ppc' = "evaluated"
  /\ UNCHANGED <<meshes, blendStrength, resolver, matrixCache, next, lastId,
                 segments, items>>
  /\ UNCHANGED <<meshVars, genVars>>
  /\ UNCHANGED <<callVars, refineVars, taskVars>>
  /\ UNCHANGED storeVars

----------------------------------------------------------------------------
\* The bounds estimate of generateIsosurfaceGeometry (sdf.ts 412, 420-456).

\* mutant of MissingMatrix: an absent id resolves to a scaling
MissingMatrixScaled == Compose(ZeroVec, Num(2))

\* if (!mesh) return new THREE.Matrix4()
MissingMatrix == Identity

RECURSIVE getWorldMatrixBounds(_, _, _, _)

\* lines 429-441, mesh = meshMap.get(id)
BoundsWorldOfMesh(ms, cache, id, mesh, depth) ==
  IF mesh.parentId # null
    THEN WorldFromParent(
           getWorldMatrixBounds(ms, cache, mesh.parentId, depth + 1),
           id, LocalMatrix(mesh))
    ELSE Returned(CacheSet(cache, id, LocalMatrix(mesh)), LocalMatrix(mesh))

\* the mesher's getWorldMatrix(id) as the depth-th nested call
getWorldMatrixBounds(ms, cache, id, depth) ==
  IF depth > StackLimit THEN NotReturned(cache)
  ELSE IF id \in DOMAIN cache THEN Returned(cache, cache[id])
  ELSE IF ~meshMapHas(ms, id) THEN Returned(cache, MissingMatrix)
  ELSE BoundsWorldOfMesh(ms, cache, id, meshMapGet(ms, id), depth)

Infinity == <<1, 0>>

\* new THREE.Box3(): min = +Infinity, max = -Infinity
EmptyBox ==
  [min |-> Vec(Infinity, Infinity, Infinity),
   max |-> Vec(Neg(Infinity), Neg(Infinity), Neg(Infinity))]

VMin(u, v) == <<MathMin(u[1], v[1]), MathMin(u[2], v[2]), MathMin(u[3], v[3])>>

VMax(u, v) == <<MathMax(u[1], v[1]), MathMax(u[2], v[2]), MathMax(u[3], v[3])>>

AddScalar(v, c) == <<Add(v[1], c), Add(v[2], c), Add(v[3], c)>>

\* Box3.expandByPoint
ExpandByPoint(b, p) == [min |-> VMin(b.min, p), max |-> VMax(b.max, p)]

\* Box3.expandByScalar
ExpandByScalar(b, c) ==
  [min |-> AddScalar(b.min, Neg(c)), max |-> AddScalar(b.max, c)]

\* radius = Math.max(scl.x, scl.y, scl.z) * 1.5; pad = radius + blendStrength
Pad(scl, k) ==
  Add(Mul(MathMax(MathMax(scl[1], scl[2]), scl[3]), Frac(3, 2)), k)

\* lines 446-454: the box after the node of world matrix mat
ExpandByMesh(b, mat, k) ==
  ExpandByPoint(
    ExpandByPoint(b, AddScalar(MatrixPosition(mat), Pad(DecomposeScale(mat), k))),
    AddScalar(MatrixPosition(mat), Neg(Pad(DecomposeScale(mat), k))))

\* one callback of activeMeshes.forEach, r the result of getWorldMatrix(m.id)
BoundsPush(st, r, k) ==
  IF r.ok THEN [cache |-> r.cache, box |-> ExpandByMesh(st.box, r.m, k),
                ok |-> TRUE]
  ELSE [st EXCEPT !.ok = FALSE]

RECURSIVE BoundsLoop(_, _, _, _, _)
BoundsLoop(ms, act, i, k, st) ==
  IF i > Len(act) \/ ~st.ok THEN st
  ELSE BoundsLoop(ms, act, i + 1, k,
         BoundsPush(st, getWorldMatrixBounds(ms, st.cache, act[i].id, 1), k))

\* lines 412-456: the box handed to the grid setup
BoundsOf(ms, k) ==
  BoundsLoop(ms, activeMeshes(ms), 1, k,
             [cache |-> EmptyCache, box |-> EmptyBox, ok |-> TRUE])

----------------------------------------------------------------------------
\* extractBones (sdf.ts 151-218).

\* the while loop of lines 171-174 from `curr` on; a loop that has gathered
\* WalkLimit parents and still goes on is taken not to end
RECURSIVE WalkParents(_, _, _)
WalkParents(ms, curr, parents) ==
  IF ~(curr # null /\ meshMapHas(ms, curr))
    THEN [parents |-> parents, ok |-> TRUE]
  ELSE IF Len(parents) >= WalkLimit THEN [parents |-> parents, ok |-> FALSE]
  ELSE WalkParents(ms, meshMapGet(ms, curr).parentId,
                   <<meshMapGet(ms, curr)>> \o parents)

\* lines 176-184: finalMatrix after parents.forEach from the i-th parent on
RECURSIVE ChainProduct(_, _, _)
ChainProduct(parents, i, finalMatrix) ==
  IF i > Len(parents) THEN finalMatrix
  ELSE ChainProduct(parents, i + 1,
                    Multiply(finalMatrix, LocalMatrix(parents[i])))

PositionResult(cache, position, ok) ==
  [cache |-> cache, position |-> position, ok |-> ok]

\* lines 188-189
CachedPosition(cache, id, finalMatrix) ==
  PositionResult(CacheSet(cache, id, finalMatrix),
                 MatrixPosition(finalMatrix), TRUE)

\* the local matrix applied before the parents' (local * parents)
PositionLocalFirst(cache, id, mesh, w) ==
  IF w.ok
    THEN CachedPosition(cache, id,
           Multiply(LocalMatrix(mesh), ChainProduct(w.parents, 1, Identity)))
    ELSE PositionResult(cache, ZeroVec, FALSE)

\* lines 176-189, w the outcome of the parent walk
PositionFromWalk(cache, id, mesh, w) ==
  IF w.ok
    THEN CachedPosition(cache, id,
           Multiply(ChainProduct(w.parents, 1, Identity), LocalMatrix(mesh)))
    ELSE PositionResult(cache, ZeroVec, FALSE)

\* lines 161-189, mesh = meshMap.get(id)
PositionOfMesh(ms, cache, id, mesh) ==
  IF mesh.parentId # null
    THEN PositionFromWalk(cache, id, mesh, WalkParents(ms, mesh.parentId, <<>>))
    ELSE CachedPosition(cache, id, LocalMatrix(mesh))

getWorldPosition(ms, cache, id) ==
  IF id \in DOMAIN cache
    THEN PositionResult(cache, MatrixPosition(cache[id]), TRUE)
  ELSE IF ~meshMapHas(ms, id) THEN PositionResult(cache, ZeroVec, TRUE)
  ELSE PositionOfMesh(ms, cache, id, meshMapGet(ms, id))

\* lines 202-214: the segment from start to end, diff = end - start
Segment(start, end, diff) ==
  [start |-> start, end |-> end,
   dir |-> VScale(Div(Num(1), Length(diff)), diff),
   length |-> Length(diff), lengthSq |-> LengthSq(diff)]

\* if (lenSq > 0.0001) segments.push(...)
PushSegment(segs, start, end) ==
  IF Less(Frac(1, 10000), LengthSq(VSub(end, start)))
    THEN Append(segs, Segment(start, end, VSub(end, start)))
    ELSE segs

\* lines 199-214: rs and re the results of getWorldPosition(parent.id) and
\* of getWorldPosition(m.id)
BoneOfChild(st, m, rs, re) ==
  IF ~rs.ok THEN [st EXCEPT !.ok = FALSE, !.cache = rs.cache, !.last = m.parentId]
  ELSE IF ~re.ok THEN [st EXCEPT !.ok = FALSE, !.cache = re.cache, !.last = m.id]
  ELSE [cache |-> re.cache, last |-> m.id, ok |-> TRUE,
        segments |-> PushSegment(st.segments, rs.position, re.position)]

\* the callback of meshes.forEach (lines 193-215) for node m
\* st = [cache, segments, last, ok]
BoneStep(ms, st, m) ==
  IF m.parentId = null \/ m.id = PROCEDURE_MESH_ID THEN st
  ELSE IF ~meshMapHas(ms, m.parentId) \/ m.parentId = PROCEDURE_MESH_ID THEN st
  ELSE BoneOfChild(st, m, getWorldPosition(ms, st.cache, m.parentId),
         getWorldPosition(ms, getWorldPosition(ms, st.cache, m.parentId).cache,
                          m.id))

----------------------------------------------------------------------------
\* Snapshots the evaluator is built on.

MeshTypes == {"sphere", "cube", "capsule", "custom"}

\* the primitive kinds listed in a snapshot (on the Y axis, where the model's
\* probes are, a cube has the distances of a sphere)
ListedTypes == {"sphere", "capsule"}

MeshOperations == {"union", "subtract", "intersect"}

NodeIds == <<"a", "b", "c", "e", "f", "g">>

\* DEFAULT_PROCEDURE_MESH, the container node
DEFAULT_PROCEDURE_MESH ==
  [id |-> PROCEDURE_MESH_ID, type |-> "custom", operation |-> "union",
   position |-> ZeroVec, scale |-> Num(1), parentId |-> null,
   visible |-> TRUE]

\* the i-th listed node: at height i - 1 on the Y axis, of scale 1 (i odd)
\* or 2 (i even), without parent
EvalNode(i, type, operation) ==
  [id |-> NodeIds[i], type |-> type, operation |-> operation,
   position |-> Vec(Num(0), Num(i - 1), Num(0)),
   scale |-> Num(1 + ((i + 1) % 2)), parentId |-> null, visible |-> TRUE]

\* lists of n primitives
RECURSIVE NodeLists(_)
NodeLists(n) ==
  IF n = 0 THEN {<<>>}
  ELSE {Append(l, EvalNode(n, type, operation)) :
          l \in NodeLists(n - 1), type \in ListedTypes,
          operation \in MeshOperations}

\* the lists with a baked node appended (handleBake adds it at the end, as
\* a 'custom' node)
BakedLists(n) ==
  IF n = 0 THEN {}
  ELSE {Append(l, EvalNode(n, "custom", operation)) :
          l \in NodeLists(n - 1), operation \in MeshOperations}

ListsUpTo(m) == UNION {NodeLists(n) \cup BakedLists(n) : n \in 0..m}

BehindContainer(lists) == {<<DEFAULT_PROCEDURE_MESH>> \o l : l \in lists}

\* up to m nodes, the last one possibly baked, alone or behind the container
EvalSnapshots(m) == ListsUpTo(m) \cup BehindContainer(ListsUpTo(m))

\* blendStrength values (0.5 is the store's default)
BlendValues == {Num(0), Frac(1, 2)}

MeshIdle ==
  /\ mpc = "idle"
  /\ gridRes = 0
  /\ values = <<>>
  /\ cellToVertMap = EmptyMap
  /\ vertices = <<>>
  /\ skipped = {}
  /\ quads = <<>>
  /\ indices = <<>>
  /\ wireframeIndices = <<>>
  /\ edgeSet = {}

PassIdle ==
  /\ meshes = <<>>
  /\ blendStrength = Num(0)
  /\ resolver = "none"
  /\ matrixCache = EmptyCache
  /\ next = 1
  /\ lastId = null
  /\ segments = <<>>
  /\ ppc = "idle"
  /\ items = <<>>
  /\ probe = ZeroVec
  /\ probeD = Num(0)

RefineIdle ==
  /\ rpc = "idle"
  /\ iter = 0
  /\ currentPositions = <<>>
  /\ nextPositions = <<>>
  /\ done = {}
  /\ reference = <<>>

TaskIdle ==
  /\ nextCorner = 0
  /\ tasks = {}

StoreIdle ==
  /\ arrays = <<>>
  /\ objects = <<>>
  /\ state = [meshes |-> 0, selectedMeshId |-> null]
  /\ bake = 0
  /\ deferred = 0
  /\ uuids = {}
  /\ outcome = "returned"

CallIdle ==
  /\ history = EmptyMap
  /\ positions = <<>>
  /\ wirePositions = <<>>
  /\ RefineIdle
  /\ TaskIdle
  /\ StoreIdle

GenIdle ==
  /\ gpc = "idle"
  /\ resolution = Num(0)
  /\ box = EmptyBox
  /\ step = ZeroVec
  /\ numSamples = 0
  /\ evaluatorBuilt = FALSE

EvalInit ==
  /\ meshes \in EvalSnapshots(MaxItems)
  /\ blendStrength \in BlendValues
  /\ resolver = "evaluator"
  /\ matrixCache = EmptyCache
  /\ next = 1
  /\ lastId = null
  /\ segments = <<>>
  /\ ppc = "init"
  /\ items = <<>>
  /\ probe = ZeroVec
  /\ probeD = Num(0)
  /\ MeshIdle
  /\ GenIdle
  /\ CallIdle

EvalNext == createSDFEvaluator \/ Evaluate

EvalSpec == EvalInit /\ [][EvalNext]_vars

----------------------------------------------------------------------------
\* One pass of a transform resolver over a snapshot, call by call.

\* the state after one callback of the evaluator's activeMeshes.map
SetEvaluatorCall(st, id) ==
  /\ matrixCache' = st.cache
  /\ items' = st.items
  /\ lastId' = id
  /\ ppc' = IF st.ok THEN "run" ELSE "RangeError"

\* createSDFEvaluator, lines 78-97: the callback for the next active node
EvaluatorResolve ==
  /\ ppc = "run"
  /\ resolver = "evaluator"
  /\ next <= Len(activeMeshes(meshes))
  /\ SetEvaluatorCall(
       PushItem([cache |-> matrixCache, items |-> items, ok |-> TRUE],
                activeMeshes(meshes)[next],
                getWorldMatrix(meshes, matrixCache,
                               activeMeshes(meshes)[next].id, 1)),
       activeMeshes(meshes)[next].id)
  /\ next' = next + 1
  /\ UNCHANGED <<meshes, blendStrength, resolver, segments, probe, probeD>>
  /\ UNCHANGED <<meshVars, genVars>>
  /\ UNCHANGED <<callVars, refineVars, taskVars>>
  /\ UNCHANGED storeVars

\* the state after one callback of the mesher's activeMeshes.forEach
SetBoundsCall(st, id) ==
  /\ matrixCache' = st.cache
  /\ box' = st.box
  /\ lastId' = id
  /\ ppc' = IF st.ok THEN "run" ELSE "RangeError"

\* generateIsosurfaceGeometry, lines 444-454: the callback for the next
\* active node
BoundsResolve ==
  /\ ppc = "run"
  /\ resolver = "bounds"
  /\ next <= Len(activeMeshes(meshes))
  /\ SetBoundsCall(
       BoundsPush([cache |-> matrixCache, box |-> box, ok |-> TRUE],
                  getWorldMatrixBounds(meshes, matrixCache,
                                       activeMeshes(meshes)[next].id, 1),
                  blendStrength),
       activeMeshes(meshes)[next].id)
  /\ next' = next + 1
  /\ UNCHANGED <<meshes, blendStrength, resolver, segments, items, probe,
                 probeD>>
  /\ UNCHANGED <<meshVars, gpc, resolution, step, numSamples, evaluatorBuilt>>
  /\ UNCHANGED <<callVars, refineVars, taskVars>>
  /\ UNCHANGED storeVars

\* the state after one callback of extractBones' meshes.forEach
SetBonesCall(st) ==
  /\ matrixCache' = st.cache
  /\ segments' = st.segments
  /\ lastId' = st.last
  /\ ppc' = IF st.ok THEN "run" ELSE "hang"

\* extractBones, lines 193-215: the callback for the next node
BonesResolve ==
  /\ ppc = "run"
  /\ resolver = "bones"
  /\ next <= Len(meshes)
  /\ SetBonesCall(
       BoneStep(meshes,
                [cache |-> matrixCache, segments |-> segments,
                 last |-> lastId, ok |-> TRUE],
                meshes[next]))
  /\ next' = next + 1
  /\ UNCHANGED <<meshes, blendStrength, resolver, items, probe, probeD>>
  /\ UNCHANGED <<meshVars, genVars>>
  /\ UNCHANGED <<callVars, refineVars, taskVars>>
  /\ UNCHANGED storeVars

\* the i-th listed node: at height i * i on the Y axis, of scale i + 1 (no
\* two of these local transforms commute)
ResolveNode(i, parentId) ==
  [id |-> NodeIds[i], type |-> "sphere", operation |-> "union",
   position |-> Vec(Num(0), Num(i * i), Num(0)), scale |-> Num(i + 1),
   parentId |-> parentId, visible |-> TRUE]

\* a parent is null, a listed node (the node itself included, so that the
\* parent relation may be cyclic), the container, or an id that no node has
ParentChoices(n) ==
  {null, "ghost", PROCEDURE_MESH_ID} \cup {NodeIds[j] : j \in 1..n}

ParentedLists(n) ==
  {[i \in 1..n |-> ResolveNode(i, f[i])] : f \in [1..n -> ParentChoices(n)]}

ParentedUpTo(m) == UNION {ParentedLists(n) : n \in 1..m}

ResolveSnapshots(m) == ParentedUpTo(m) \cup BehindContainer(ParentedUpTo(m))

ResolveInit ==
  /\ meshes \in ResolveSnapshots(MaxNodes)
  /\ blendStrength = Frac(1, 2)
  /\ resolver \in {"evaluator", "bounds", "bones"}
  /\ matrixCache = EmptyCache
  /\ next = 1
  /\ lastId = null
  /\ segments = <<>>
  /\ ppc = "run"
  /\ items = <<>>
  /\ probe = ZeroVec
  /\ probeD = Num(0)
  /\ MeshIdle
  /\ GenIdle
  /\ CallIdle

ResolveNext == EvaluatorResolve \/ BoundsResolve \/ BonesResolve

ResolveSpec == ResolveInit /\ [][ResolveNext]_vars

----------------------------------------------------------------------------
\* The head of generateIsosurfaceGeometry (sdf.ts 405-473): early returns,
\* bounds, grid setup, evaluator, allocation of the sample array.

\* mutant of EarlyReturn: only the empty list returns early
EarlyReturnEmptyOnly(ms) == Len(ms) < 1

\* if (meshes.length <= 1) return ...; if (activeMeshes.length === 0) return ...
EarlyReturn(ms) == Len(ms) <= 1 \/ Len(activeMeshes(ms)) = 0

IntMin(a, b) == IF a < b THEN a ELSE b

\* the cap on the per-axis cell count
GridCap == 128

\* gridRes = Math.min(Math.floor(resolution * 4), 128)
GridResOf(res) == IntMin(MathFloor(Mul(res, Num(4)))[1], GridCap)

\* Box3.isEmpty
IsEmptyBox(b) == \E i \in 1..3 : Less(b.max[i], b.min[i])

\* Box3.getSize
GetSize(b) == IF IsEmptyBox(b) THEN ZeroVec ELSE VSub(b.max, b.min)

\* size.clone().divideScalar(gridRes)
RawStep(b, g) == VScale(Inv(Num(g)), GetSize(b))

\* if (step.lengthSq() < 0.0001) step.set(0.1, 0.1, 0.1)
StepOf(raw) ==
  IF Less(LengthSq(raw), Frac(1, 10000))
    THEN Vec(Frac(1, 10), Frac(1, 10), Frac(1, 10))
    ELSE raw

\* (dims[0] + 1) * (dims[1] + 1) * (dims[2] + 1)
ValuesLength(g) == (g + 1) * (g + 1) * (g + 1)

\* lines 459-473 once the evaluator is built: a negative length makes
\* new Float32Array throw RangeError
SetGrid(b, g, its) ==
  /\ box' = b
  /\ gridRes' = g
  /\ step' = StepOf(RawStep(b, g))
  /\ items' = its
  /\ evaluatorBuilt' = TRUE
  /\ numSamples' = IF ValuesLength(g) < 0 THEN 0 ELSE ValuesLength(g)
  /\ gpc' = IF ValuesLength(g) < 0 THEN "RangeError" ELSE "sampling"

\* lines 420-473, bnd the outcome of the bounds estimate and ev of
\* createSDFEvaluator
SetHead(bnd, ev) ==
  IF bnd.ok /\ ev.ok
    THEN SetGrid(ExpandByScalar(bnd.box, Num(1)), GridResOf(resolution),
                 ev.items)
    ELSE /\ gpc' = "RangeError"
         /\ UNCHANGED <<box, gridRes, step, items, evaluatorBuilt, numSamples>>

Generate ==
  /\ gpc = "call"
  /\ IF EarlyReturn(meshes)
       THEN /\ gpc' = "returned"
            /\ UNCHANGED <<box, gridRes, step, items, evaluatorBuilt,
                           numSamples>>
       ELSE SetHead(BoundsOf(meshes, blendStrength), ItemsOf(meshes))
  /\ UNCHANGED <<meshes, blendStrength, resolver, matrixCache, next, lastId,
                 segments, ppc, probe, probeD, resolution>>
  /\ UNCHANGED <<mpc, values, cellToVertMap, vertices, skipped, quads,
                 indices, wireframeIndices, edgeSet>>
  /\ UNCHANGED <<callVars, refineVars, taskVars>>
  /\ UNCHANGED storeVars

\* resolution arguments (the store's default is 8)
Resolutions ==
  {Num(-1), Num(0), Frac(1, 4), Frac(1, 2), Num(2), Num(8), Num(32), Num(40)}

GenInit ==
  /\ meshes \in EvalSnapshots(MaxGenNodes)
  /\ blendStrength \in BlendValues
  /\ resolution \in Resolutions
  /\ resolver = "none"
  /\ matrixCache = EmptyCache
  /\ next = 1
  /\ lastId = null
  /\ segments = <<>>
  /\ ppc = "idle"
  /\ items = <<>>
  /\ probe = ZeroVec
  /\ probeD = Num(0)
  /\ gpc = "call"
  /\ box = EmptyBox
  /\ step = ZeroVec
  /\ numSamples = 0
  /\ evaluatorBuilt = FALSE
  /\ MeshIdle
  /\ CallIdle

GenNext == Generate

GenSpec == GenInit /\ [][GenNext]_vars

----------------------------------------------------------------------------
\* Sampled grids the mesher is run on.

RECURSIVE SetsUpTo(_, _)
SetsUpTo(S, m) ==
  IF m = 0 THEN {{}}
  ELSE LET P == SetsUpTo(S, m - 1)
       IN P \cup {p \cup {s} : p \in P, s \in S}

\* corner indices of the block of 2 x 2 x 2 cells at (o, o, o)
BlockCorners(n, o) ==
  {CornerIndex(n, o + dx, o + dy, o + dz) :
     dx \in 0..2, dy \in 0..2, dz \in 0..2}

\* at most MaxFlipped corners of one block on the diagonal of the grid
FlippedSets(n) ==
  UNION {SetsUpTo(BlockCorners(n, o), MaxFlipped) : o \in 0..(n - 2)}

\* the corners of an axis-aligned box of the grid
BoxRegions(n) ==
  {{CornerIndex(n, x, y, z) : x \in b[1]..b[2], y \in b[3]..b[4],
                              z \in b[5]..b[6]} :
     b \in {t \in [1..6 -> 0..n] : t[1] <= t[2] /\ t[3] <= t[4] /\ t[5] <= t[6]}}

\* every grid of at most one cell; a larger grid holds a background value
\* (all outside or all inside) and another value on a box of corners or on
\* at most MaxFlipped corners
Grids(n) ==
  IF n <= 1 THEN [0..(NumCorners(n) - 1) -> SampleVals]
  ELSE {[i \in 0..(NumCorners(n) - 1) |-> IF i \in F THEN fv ELSE bg] :
          F \in BoxRegions(n) \cup FlippedSets(n),
          bg \in {-1, 1}, fv \in SampleVals}

MeshInit ==
  /\ mpc = "sampled"
  /\ gridRes \in 0..MaxGridRes
  /\ values \in Grids(gridRes)
  /\ cellToVertMap = EmptyMap
  /\ vertices = <<>>
  /\ skipped = {}
  /\ quads = <<>>
  /\ indices = <<>>
  /\ wireframeIndices = <<>>
  /\ edgeSet = {}
  /\ PassIdle
  /\ GenIdle
  /\ CallIdle

MeshNext == PlaceVertices \/ EmitQuads

MeshSpec == MeshInit /\ [][MeshNext]_vars

----------------------------------------------------------------------------
\* Geometry of the grid, stated without the source's index arithmetic.

Triples(lo, hi) == {<<x, y, z>> : x \in lo..hi, y \in lo..hi, z \in lo..hi}

CellsOf(n) == Triples(0, n - 1)

CornersOf(n) == Triples(0, n)

SampleAt(p) == values[CornerIndex(gridRes, p[1], p[2], p[3])]

CellIdx(c) == CellIndex(gridRes, c[1], c[2], c[3])

CellCornerSamples(c) ==
  {SampleAt(<<c[1] + dx, c[2] + dy, c[3] + dz>>) :
     dx \in {0, 1}, dy \in {0, 1}, dz \in {0, 1}}

\* the samples are neither all > 0 nor all <= 0
MixedSamples(S) == ~(\A v \in S : v > 0) /\ ~(\A v \in S : v <= 0)

MixedCell(c) == MixedSamples(CellCornerSamples(c))

\* a grid edge: its lower corner and its axis
GridEdges(n) == {e \in CornersOf(n) \X (1..3) : e[1][e[2]] + 1 <= n}

EdgeEnd(e) == [e[1] EXCEPT ![e[2]] = @ + 1]

CellHasCorner(c, p) == \A i \in 1..3 : p[i] - c[i] \in {0, 1}

\* the cells of the grid that contain the edge (every cell with corner p is
\* p minus an offset in {0,1}^3)
Surround(n, e) ==
  {c \in {<<e[1][1] - dx, e[1][2] - dy, e[1][3] - dz>> :
            dx \in {0, 1}, dy \in {0, 1}, dz \in {0, 1}} :
     /\ \A i \in 1..3 : c[i] \in 0..(n - 1)
     /\ CellHasCorner(c, e[1])
     /\ CellHasCorner(c, EdgeEnd(e))}

\* one sample > 0, the other <= 0
OppositeSigns(va, vb) == (va > 0 /\ vb <= 0) \/ (va <= 0 /\ vb > 0)

DiffersInSign(e) == OppositeSigns(SampleAt(e[1]), SampleAt(EdgeEnd(e)))

QuadEdges ==
  {e \in GridEdges(gridRes) :
     DiffersInSign(e) /\ Cardinality(Surround(gridRes, e)) = 4}

SeqRange(s) == {s[i] : i \in 1..Len(s)}

----------------------------------------------------------------------------
\* C1: after vertex placement a cell has a vertex exactly when its 8 corner
\* samples are neither all > 0 nor all <= 0; no cell has more than one
\* vertex, distinct cells have distinct vertex indices, every vertex has at
\* least one sign-changing cell edge, and the `count > 0` skip is never taken.
C1_OneVertexPerMixedCell ==
  mpc \in {"placed", "meshed"} =>
    /\ \A c \in CellsOf(gridRes) :
         (CellIdx(c) \in DOMAIN cellToVertMap) <=> MixedCell(c)
    /\ DOMAIN cellToVertMap \subseteq {CellIdx(c) : c \in CellsOf(gridRes)}
    /\ \A c \in DOMAIN cellToVertMap :
         /\ cellToVertMap[c] \in 0..(Len(vertices) - 1)
         /\ vertices[cellToVertMap[c] + 1].cell = c
    /\ \A c, d \in DOMAIN cellToVertMap :
         cellToVertMap[c] = cellToVertMap[d] => c = d
    /\ Len(vertices) = Cardinality(DOMAIN cellToVertMap)
    /\ \A i \in 1..Len(vertices) : vertices[i].count >= 1
    /\ skipped = {}

\* a grid of several cells where some cells got a vertex and some did not,
\* and a corner sample is exactly 0
C1_Witness ==
  /\ mpc = "placed"
  /\ gridRes >= 2
  /\ Len(vertices) >= 2
  /\ Len(vertices) < NumCells(gridRes)
  /\ \E p \in CornersOf(gridRes) : SampleAt(p) = 0

\* the quads Q (as vertex sets) are those of the edges E, one each, and the
\* index buffer holds two triangles per quad
C2_Holds(E, Q) ==
  /\ \A e \in E :
       \A c \in Surround(gridRes, e) : CellIdx(c) \in DOMAIN cellToVertMap
  /\ Len(quads) = Cardinality(E)
  /\ Q = {{cellToVertMap[CellIdx(c)] : c \in Surround(gridRes, e)} : e \in E}
  /\ Cardinality(Q) = Len(quads)
  /\ \A q \in Q : Cardinality(q) = 4
  /\ Len(indices) = 6 * Len(quads)
  /\ \A i \in 1..Len(quads) :
       SubSeq(indices, 6 * (i - 1) + 1, 6 * i) =
         <<quads[i][1], quads[i][2], quads[i][3],
           quads[i][1], quads[i][3], quads[i][4]>>
  /\ \A k \in 1..Len(indices) : indices[k] \in 0..(Len(vertices) - 1)

\* C2: exactly one quad per grid edge whose corner samples differ in sign
\* and which has four surrounding cells in the grid, joining the vertices of
\* those four cells, and no other quad; 6 triangle indices per quad, the two
\* triangles sharing the diagonal q0-q2; every index names a vertex.
C2_OneQuadPerInteriorCrossing ==
  mpc = "meshed" =>
    C2_Holds(QuadEdges, {SeqRange(quads[i]) : i \in 1..Len(quads)})

\* a mesh of at least three quads on a grid with a sign-changing
\* boundary edge (fewer than four surrounding cells) that got no quad
C2_Witness ==
  /\ mpc = "meshed"
  /\ Len(quads) >= 3
  /\ \E e \in GridEdges(gridRes) :
       DiffersInSign(e) /\ Cardinality(Surround(gridRes, e)) < 4

----------------------------------------------------------------------------
\* The field as a fold, stated without the evaluator's loop.

\* scaled distance of the i-th item at the probe
ScaledDist(i) == ItemDist(items[i], probe)

\* the running value r after one more item of scaled distance c
FoldStep(r, operation, c, smoothMin(_, _, _), smoothMax(_, _, _)) ==
  CASE operation = "union" -> smoothMin(r, c, blendStrength)
    [] operation = "subtract" -> smoothMax(r, Neg(c), blendStrength)
    [] operation = "intersect" -> smoothMax(r, c, blendStrength)

\* the left fold over items 1..i, seeded with the first scaled distance
RECURSIVE LeftFold(_)
LeftFold(i) ==
  IF i = 1 THEN ScaledDist(1)
  ELSE FoldStep(LeftFold(i - 1), items[i].operation, ScaledDist(i), smin, smax)

\* the snapshot with the operation of its first non-container node replaced
FirstActive(ms) ==
  CHOOSE i \in 1..Len(ms) :
    NotContainer(ms[i]) /\ \A j \in 1..(i - 1) : ~NotContainer(ms[j])

WithFirstOperation(ms, operation) ==
  [ms EXCEPT ![FirstActive(ms)].operation = operation]

FieldOf(ms, k, p) == evaluate(ItemsOf(ms).items, k, p)

\* C3: the evaluator's value is the left fold over the items in list order,
\* seeded with the first item's scaled distance whatever its operation
\* (smin for union, smax(r, -c) for subtract, smax(r, c) for intersect), and
\* replacing the operation of the first listed primitive leaves it unchanged.
C3_EvaluatorIsLeftFold ==
  (ppc = "evaluated" /\ Len(items) >= 1) =>
    /\ probeD = LeftFold(Len(items))
    /\ \A operation \in MeshOperations :
         FieldOf(WithFirstOperation(meshes, operation), blendStrength, probe)
           = probeD

\* a field of three items whose first item is a subtraction, and where
\* exchanging the second and third item changes the value
C3_Witness ==
  /\ ppc = "evaluated"
  /\ Len(items) = 3
  /\ items[1].operation = "subtract"
  /\ ~IsNaN(probeD)
  /\ evaluate(<<items[1], items[3], items[2]>>, blendStrength, probe) # probeD

\* Math.min / Math.max as the exact operators the smooth ones should become
HardMin(a, b, k) == MathMin(a, b)

HardMax(a, b, k) == MathMax(a, b)

RECURSIVE HardFold(_)
HardFold(i) ==
  IF i = 1 THEN ScaledDist(1)
  ELSE FoldStep(HardFold(i - 1), items[i].operation, ScaledDist(i),
                HardMin, HardMax)

\* C4: with blendStrength = 0, smin is min and smax is max, so the field of
\* two or more primitives is the hard boolean fold and a finite number.
C4_ZeroBlendIsHardBoolean ==
  (ppc = "evaluated" /\ blendStrength = Num(0) /\ Len(items) >= 2) =>
    /\ IsFinite(probeD)
    /\ probeD = HardFold(Len(items))

NotCustom(item) == item.type # "custom"

\* C5: nodes of kind 'custom' are skipped when the items are built, so the
\* field is the field of the items that are not custom.
C5_CustomNodesSkipped ==
  /\ ppc \in {"ready", "evaluated"} =>
       \A i \in 1..Len(items) : NotCustom(items[i])
  /\ ppc = "evaluated" =>
       probeD = evaluate(SelectSeq(items, NotCustom), blendStrength, probe)

----------------------------------------------------------------------------
\* the call has returned an empty BufferGeometry without any grid work
EmptyMeshNoGridWork ==
  /\ gpc = "returned"
  /\ vertices = <<>>
  /\ indices = <<>>
  /\ ~evaluatorBuilt
  /\ numSamples = 0

\* C6: called with an empty node list, or with only the container node, the
\* mesher returns a mesh with zero vertices and zero indices, without
\* building an evaluator or sampling a grid corner.
C6_EmptyListGivesEmptyMesh ==
  (gpc # "call" /\ (meshes = <<>> \/ meshes = <<DEFAULT_PROCEDURE_MESH>>)) =>
    EmptyMeshNoGridWork

\* the call with only the container in the list has returned
C6_Witness ==
  /\ gpc = "returned"
  /\ meshes = <<DEFAULT_PROCEDURE_MESH>>

IsPrimitive(m) == m.type \in {"sphere", "cube", "capsule"}

\* C7: the 'empty mesh, no grid work' shortcut is taken only when the
\* snapshot holds no primitive node; with at least one primitive (a list of
\* exactly one primitive and no container included) the call goes on to the
\* grid.
C7_ShortcutOnlyWithoutPrimitive ==
  gpc = "returned" => ~(\E i \in 1..Len(meshes) : IsPrimitive(meshes[i]))

IntMax(a, b) == IF a < b THEN b ELSE a

\* clamp(floor(resolution * 4), 2, 128)
ClampedCells(res) ==
  IntMin(IntMax(MathFloor(Mul(res, Num(4)))[1], 2), 128)

\* C8: for every resolution the per-axis cell count is
\* clamp(floor(resolution * 4), 2, 128): it is never 0 or negative, the step
\* is not a division by 0, and the sample array has between 3^3 and 129^3
\* entries.
C8_CellCountClamped ==
  (gpc # "call" /\ ~EarlyReturn(meshes)) =>
    /\ gpc = "sampling"
    /\ gridRes = ClampedCells(resolution)
    /\ gridRes >= 2
    /\ \A i \in 1..3 : IsFinite(step[i])
    /\ numSamples >= 3 * 3 * 3
    /\ numSamples <= 129 * 129 * 129

----------------------------------------------------------------------------
\* a node whose parentId names no node of the snapshot
Dangling(ms, m) == m.parentId # null /\ ~meshMapHas(ms, m.parentId)

DanglingId(id) ==
  meshMapHas(meshes, id) /\ Dangling(meshes, meshMapGet(meshes, id))

\* C9: in each of the three resolvers a node whose parentId names an absent
\* id resolves to exactly its own local transform, and the call that
\* resolves it returns (no stack exhaustion, no endless walk).
C9_DanglingParentIsRoot ==
  /\ \A id \in DOMAIN matrixCache :
       DanglingId(id) =>
         matrixCache[id] = LocalMatrix(meshMapGet(meshes, id))
  /\ ppc \in {"RangeError", "hang"} => ~DanglingId(lastId)
  /\ (ppc = "run" /\ DanglingId(lastId)) => lastId \in DOMAIN matrixCache

\* extractBones has resolved a node with a dangling parent as the parent of
\* a bone
C9_Witness ==
  /\ resolver = "bones"
  /\ ppc = "run"
  /\ Len(segments) >= 1
  /\ \E id \in DOMAIN matrixCache : DanglingId(id)

\* C10: transform resolution and bone extraction terminate on every
\* snapshot, cyclic parent relations included: no resolver call exhausts the
\* stack and no parent walk goes on without end.
C10_ResolutionTerminates == ppc \notin {"RangeError", "hang"}

----------------------------------------------------------------------------
\* The parent chain of a node, stated without the resolver's recursion.

\* the parent of node id if the snapshot holds it, else null
PresentParent(ms, id) ==
  IF meshMapGet(ms, id).parentId # null
     /\ meshMapHas(ms, meshMapGet(ms, id).parentId)
    THEN meshMapGet(ms, id).parentId
    ELSE null

\* the ids from an ancestor down to id, following at most fuel parent links
RECURSIVE PathDown(_, _, _)
PathDown(ms, id, fuel) ==
  IF fuel = 0 \/ PresentParent(ms, id) = null THEN <<id>>
  ELSE Append(PathDown(ms, PresentParent(ms, id), fuel - 1), id)

\* every node reaches a node without present parent
Acyclic(ms) ==
  \A i \in 1..Len(ms) :
    PresentParent(ms, PathDown(ms, ms[i].id, Len(ms))[1]) = null

\* local(path[1]) * local(path[2]) * ... * local(path[i])
RECURSIVE PathProduct(_, _, _)
PathProduct(ms, path, i) ==
  IF i = 0 THEN Identity
  ELSE Multiply(PathProduct(ms, path, i - 1),
                LocalMatrix(meshMapGet(ms, path[i])))

ChainMatrix(ms, id) ==
  PathProduct(ms, PathDown(ms, id, Len(ms)), Len(PathDown(ms, id, Len(ms))))

\* the ids on the chains of the first n active nodes
ChainIds(ms, n) ==
  UNION {SeqRange(PathDown(ms, activeMeshes(ms)[i].id, Len(ms))) : i \in 1..n}

\* the memo table and the items hold the chain products of exactly the
\* nodes on the chains of the nodes resolved so far
C11_ChainState ==
  (resolver = "evaluator" /\ Acyclic(meshes)) =>
    /\ ppc = "run"
    /\ DOMAIN matrixCache = ChainIds(meshes, next - 1)
    /\ \A id \in DOMAIN matrixCache :
         matrixCache[id] = ChainMatrix(meshes, id)
    /\ Len(items) = next - 1
    /\ \A i \in 1..Len(items) :
         items[i].inverseMatrix =
           Invert(ChainMatrix(meshes, activeMeshes(meshes)[i].id))

\* a call leaves every matrix already in the memo table as it is
C11_MemoKept ==
  (resolver = "evaluator" /\ Acyclic(meshes)) =>
    \A id \in DOMAIN matrixCache :
      id \in DOMAIN matrixCache' /\ matrixCache'[id] = matrixCache[id]

\* C11: on an acyclic snapshot the evaluator's memoized getWorldMatrix gives
\* every node the product of the local matrices along its parent chain,
\* topmost present ancestor first, whatever nodes were resolved before (in
\* whatever order the snapshot lists parents and children); a matrix once in
\* the memo table is not computed again.
C11_MemoizedChainProduct == []C11_ChainState /\ [][C11_MemoKept]_vars

\* a pass over an acyclic snapshot has finished, in which a child was listed
\* before its parent (the parent's later call hits the memo table) and a
\* node has a grandparent
C11_Witness ==
  /\ resolver = "evaluator"
  /\ ppc = "run"
  /\ Acyclic(meshes)
  /\ next > Len(activeMeshes(meshes))
  /\ \E i, j \in 1..Len(meshes) :
       i < j /\ meshes[i].parentId = meshes[j].id /\ NotContainer(meshes[j])
  /\ \E i \in 1..Len(meshes) :
       Len(PathDown(meshes, meshes[i].id, Len(meshes))) >= 3

----------------------------------------------------------------------------
\* The mesher on a field: sample values, vertex positions and the winding
\* test as numbers (sdf.ts 459-731).

\* probe.set(min.x + x * step.x, min.y + y * step.y, min.z + z * step.z)
CornerPoint(b, st, x, y, z) ==
  Vec(Add(b.min[1], Mul(Num(x), st[1])), Add(b.min[2], Mul(Num(y), st[2])),
      Add(b.min[3], Mul(Num(z), st[3])))

\* the sampling loop: values[idx++] = evaluate(probe), x fastest, z slowest
NumGrid(its, k, b, st, n) ==
  [i \in 0..(NumCorners(n) - 1) |->
     evaluate(its, k,
       CornerPoint(b, st, i % (n + 1), (i \div (n + 1)) % (n + 1),
                   i \div ((n + 1) * (n + 1))))]

\* what the loops read of a sample: `> 0` decides the side of the surface
\* (false for NaN), and a zero sample is a crossing at the corner
SignClass(d) == IF Less(Num(0), d) THEN 1 ELSE IF d = Num(0) THEN 0 ELSE -1

SampleGrid(num) == [i \in DOMAIN num |-> SignClass(num[i])]

\* the weights are taken the other way round: valA / (valB - valA)
interpAway(valA, valB, posA, posB) ==
  Add(posA, Mul(Div(valA, Sub(valB, valA)), Sub(posB, posA)))

\* posA + (valA / (valA - valB)) * (posB - posA)
interp(valA, valB, posA, posB) ==
  Add(posA, Mul(Div(valA, Sub(valA, valB)), Sub(posB, posA)))

\* the axis of the e-th cell edge: 1..4 along X, 5..8 along Y, 9..12 along Z
EdgeAxis(e) == 1 + ((e - 1) \div 4)

\* the corner of cell (x,y,z) at position c of CellCorners
CellCorner(x, y, z, c) ==
  <<x + CellCorners[c][1], y + CellCorners[c][2], z + CellCorners[c][3]>>

\* the point added to (sumX, sumY, sumZ) for a crossed edge from corner ca to
\* corner cb: interpolated along the axis of the edge
EdgePoint(num, b, st, n, ca, cb, axis) ==
  LET posA == CornerPoint(b, st, ca[1], ca[2], ca[3])
  IN  [posA EXCEPT ![axis] =
         interp(num[CornerIndex(n, ca[1], ca[2], ca[3])],
                num[CornerIndex(n, cb[1], cb[2], cb[3])],
                posA[axis],
                CornerPoint(b, st, cb[1], cb[2], cb[3])[axis])]

EdgeCrossed(num, n, ca, cb) ==
  Less(Num(0), num[CornerIndex(n, ca[1], ca[2], ca[3])])
    # Less(Num(0), num[CornerIndex(n, cb[1], cb[2], cb[3])])

\* sumX, sumY, sumZ and count after the edge tests from the e-th on
RECURSIVE CrossingSum(_, _, _, _, _, _, _, _, _)
CrossingSum(num, b, st, n, x, y, z, e, acc) ==
  IF e > 12 THEN acc
  ELSE CrossingSum(num, b, st, n, x, y, z, e + 1,
         IF EdgeCrossed(num, n, CellCorner(x, y, z, CellEdges[e][1]),
                        CellCorner(x, y, z, CellEdges[e][2]))
           THEN [sum |-> VAdd(acc.sum,
                              EdgePoint(num, b, st, n,
                                        CellCorner(x, y, z, CellEdges[e][1]),
                                        CellCorner(x, y, z, CellEdges[e][2]),
                                        EdgeAxis(e))),
                 count |-> acc.count + 1]
           ELSE acc)

Mean(r) == VScale(Inv(Num(r.count)), r.sum)

\* vertices.push(sumX / count, sumY / count, sumZ / count) of a cell
VertexPosition(num, b, st, n, cell) ==
  Mean(CrossingSum(num, b, st, n, cell % n, (cell \div n) % n,
                   cell \div (n * n), 1, [sum |-> ZeroVec, count |-> 0]))

\* the position of every placed vertex (vertex i at place i + 1)
PositionsOf(num, b, st, n, verts) ==
  [v \in 1..Len(verts) |-> VertexPosition(num, b, st, n, verts[v].cell)]

\* const avgStep = (step.x + step.y + step.z) / 3
avgStep(st) == Div(Add(Add(st[1], st[2]), st[3]), Num(3))

\* Math.max(avgStep * 0.35, 1e-4)
normalEps(st) == MathMax(Mul(avgStep(st), Frac(35, 100)), Frac(1, 10000))

Axis(i) == [j \in 1..3 |-> IF j = i THEN Num(1) ELSE Num(0)]

\* (d1 - d0) * inv2Eps along axis i
CentralDifference(its, k, eps, p, i) ==
  Mul(Sub(evaluate(its, k, VAdd(p, VScale(eps, Axis(i)))),
          evaluate(its, k, VSub(p, VScale(eps, Axis(i))))),
      Inv(Mul(Num(2), eps)))

\* if (len > 1e-12) out.multiplyScalar(1 / len)
NormalizeFrom(v, len) ==
  IF Less(Num(0), len) THEN VFround(VScale(Inv(len), v)) ELSE v

Normalize(v) == NormalizeFrom(v, Length(v))

sdfNormal(its, k, eps, p) ==
  Normalize(Vec(CentralDifference(its, k, eps, p, 1),
                CentralDifference(its, k, eps, p, 2),
                CentralDifference(its, k, eps, p, 3)))

Dot(u, v) == Add(Add(Mul(u[1], v[1]), Mul(u[2], v[2])), Mul(u[3], v[3]))

Cross(u, v) ==
  Vec(Sub(Mul(u[2], v[3]), Mul(u[3], v[2])),
      Sub(Mul(u[3], v[1]), Mul(u[1], v[3])),
      Sub(Mul(u[1], v[2]), Mul(u[2], v[1])))

\* fn = e1 x e2 with e1 = b - a, e2 = c - a
FaceNormal(a, b, c) == Cross(VSub(b, a), VSub(c, a))

\* center.set((ax + bx + cx + dx) * 0.25, ...)
QuadCenter(a, b, c, d) == VScale(Frac(1, 4), VAdd(VAdd(a, b), VAdd(c, d)))

\* fnx * nGrad.x + fny * nGrad.y + fnz * nGrad.z < 0 for the loop q of
\* vertex indices, pos the vertex positions
WindingTest(its, k, eps, pos, q) ==
  Less(Dot(FaceNormal(pos[q[1] + 1], pos[q[2] + 1], pos[q[3] + 1]),
           sdfNormal(its, k, eps,
                     QuadCenter(pos[q[1] + 1], pos[q[2] + 1], pos[q[3] + 1],
                                pos[q[4] + 1]))),
       Num(0))

\* the outcome of the winding test for every quad of a pass, qs the loops
\* before the test
WindingOutcomes(its, k, eps, pos, qs) ==
  [i \in 1..Len(qs) |-> WindingTest(its, k, eps, pos, qs[i])]

----------------------------------------------------------------------------
\* Successive calls of generateIsosurfaceGeometry (sdf.ts 405-806) without
\* smartRetopo.  Every call builds its maps and arrays anew; the module keeps
\* no state between calls.

\* a rigged node: the i-th listed node with its type and scale set
RigNode(i, type, s, parentId) ==
  [ResolveNode(i, parentId) EXCEPT !.type = type, !.scale = Num(s)]

\* argument lists (meshes, resolution, blendStrength): two hold the same id
\* under different transforms, one holds the container only, one a chain
CallInputs ==
  {[meshes |-> <<DEFAULT_PROCEDURE_MESH, RigNode(1, "sphere", 2, null)>>,
    resolution |-> Frac(1, 2), blendStrength |-> Frac(1, 2)],
   [meshes |-> <<DEFAULT_PROCEDURE_MESH, RigNode(1, "sphere", 3, null)>>,
    resolution |-> Frac(1, 2), blendStrength |-> Frac(1, 2)],
   [meshes |-> <<DEFAULT_PROCEDURE_MESH>>,
    resolution |-> Frac(1, 2), blendStrength |-> Frac(1, 2)],
   [meshes |-> <<DEFAULT_PROCEDURE_MESH, RigNode(1, "sphere", 2, NodeIds[2]),
                 RigNode(2, "sphere", 1, null)>>,
    resolution |-> Frac(1, 2), blendStrength |-> Frac(1, 2)],
   [meshes |-> <<DEFAULT_PROCEDURE_MESH, RigNode(1, "sphere", 4, null),
                 RigNode(2, "capsule", 1, null)>>,
    resolution |-> Frac(1, 2), blendStrength |-> Frac(1, 2)]}

\* lines 640-783: the edge loops, each quad reversed as the winding test on
\* its loop decides
MeshWith(its, k, eps, vals, g, placed, pos) ==
  [values |-> vals, placed |-> placed, positions |-> pos,
   mesh |-> AllQuads(vals, g, placed.map,
              Outcomes(WindingOutcomes(its, k, eps, pos,
                AllQuads(vals, g, placed.map, Pattern("never")).quads)))]

\* the vertex array and the map of the previous pass, kept
KeptPlacement == [verts |-> vertices, map |-> cellToVertMap, skip |-> skipped]

\* const vertices: number[] = []; const cellToVertMap = new Map()
NewPlacement == [verts |-> <<>>, map |-> EmptyMap, skip |-> {}]

\* lines 503-783 on a sampled grid: the cell loop, then the edge loops
MeshPassFrom(its, k, b, st, g, num, vals, placed) ==
  MeshWith(its, k, normalEps(st), vals, g, placed,
           PositionsOf(num, b, st, g, placed.verts))

MeshPassOn(its, k, b, st, g, num, vals) ==
  MeshPassFrom(its, k, b, st, g, num, vals,
               PlaceFrom(vals, g, 0, NewPlacement))

MeshPass(its, k, b, st, g, num) ==
  MeshPassOn(its, k, b, st, g, num, SampleGrid(num))

\* lines 459-783 once the bounds and the evaluator are there
GridPass(its, k, b, g, st) ==
  [box |-> b, gridRes |-> g, step |-> st, items |-> its,
   pass |-> MeshPass(its, k, b, st, g, NumGrid(its, k, b, st, g))]

\* lines 420-783, bnd the outcome of the bounds estimate and ev of
\* createSDFEvaluator; a parent walk that overflows the stack and a negative
\* array length end the call with RangeError
HeadPass(k, g, bnd, ev) ==
  IF bnd.ok /\ ev.ok /\ ValuesLength(g) >= 0
    THEN [gpc |-> "done", cache |-> ev.cache,
          grid |-> GridPass(ev.items, k, ExpandByScalar(bnd.box, Num(1)), g,
                            StepOf(RawStep(ExpandByScalar(bnd.box, Num(1)),
                                           g)))]
    ELSE [gpc |-> "RangeError"]

\* the whole call
CallResult(inp) ==
  IF EarlyReturn(inp.meshes) THEN [gpc |-> "returned"]
  ELSE HeadPass(inp.blendStrength, GridResOf(inp.resolution),
                BoundsOf(inp.meshes, inp.blendStrength),
                ItemsOf(inp.meshes))

\* the locals of a pass that ran to the end, and the buffers it returns
SetPass(r) ==
  /\ matrixCache' = r.cache
  /\ items' = r.grid.items
  /\ box' = r.grid.box
  /\ gridRes' = r.grid.gridRes
  /\ step' = r.grid.step
  /\ numSamples' = ValuesLength(r.grid.gridRes)
  /\ evaluatorBuilt' = TRUE
  /\ values' = r.grid.pass.values
  /\ positions' = r.grid.pass.positions
  /\ wirePositions' = r.grid.pass.positions
  /\ SetPlaced(r.grid.pass.placed)
  /\ SetMesh(r.grid.pass.mesh)

\* return new THREE.BufferGeometry() of lines 414 and 417 (and no geometry
\* at all when the call throws)
SetEmpty ==
  /\ vertices' = <<>>
  /\ indices' = <<>>
  /\ wireframeIndices' = <<>>
  /\ positions' = <<>>
  /\ wirePositions' = <<>>
  /\ UNCHANGED <<matrixCache, items, box, gridRes, step, numSamples,
                 evaluatorBuilt, values, cellToVertMap, skipped, quads,
                 edgeSet>>

\* what the caller gets: the position, index and wireframe buffers
CallOutput ==
  [gpc |-> gpc, vertices |-> vertices, positions |-> positions,
   indices |-> indices, wireframeIndices |-> wireframeIndices]

Recorded(h, inp, out) ==
  IF inp \in DOMAIN h
    THEN [h EXCEPT ![inp].calls = @ + 1]
    ELSE [i \in DOMAIN h \cup {inp} |->
            IF i = inp THEN [output |-> out, calls |-> 1] ELSE h[i]]

SetCall(inp, r) ==
  /\ meshes' = inp.meshes
  /\ resolution' = inp.resolution
  /\ blendStrength' = inp.blendStrength
  /\ gpc' = r.gpc
  /\ IF r.gpc = "done" THEN SetPass(r) ELSE SetEmpty
  /\ history' = Recorded(history, inp, CallOutput')
  /\ UNCHANGED <<mpc, resolver, next, lastId, segments, ppc, probe, probeD>>
  /\ UNCHANGED <<refineVars, taskVars>>

RECURSIVE CallCount(_, _)
CallCount(h, S) ==
  IF S = {} THEN 0
  ELSE LET i == CHOOSE x \in S : TRUE
       IN h[i].calls + CallCount(h, S \ {i})

\* behaviours of at most MaxCalls calls are followed
GenerateCall ==
  /\ CallCount(history, DOMAIN history) < MaxCalls
  /\ \E inp \in CallInputs :
       SetCall(inp, CallResult(inp))
  /\ UNCHANGED storeVars

CallInit ==
  /\ history = EmptyMap
  /\ positions = <<>>
  /\ wirePositions = <<>>
  /\ RefineIdle
  /\ TaskIdle
  /\ StoreIdle
  /\ MeshIdle
  /\ PassIdle
  /\ GenIdle

CallNext == GenerateCall

CallSpec == CallInit /\ [][CallNext]_vars

----------------------------------------------------------------------------
\* refineMesh (sdf.ts 222-401).

\* const iterations = 10
iterations == 10

\* const lambda = 0.55
lambda == Frac(55, 100)

\* const snapStrength = 0.35
snapStrength == Frac(35, 100)

\* Math.max(gridStep * 0.5, 1e-4)
RefineEps(gridStep) == MathMax(Mul(gridStep, Frac(1, 2)), Frac(1, 10000))

\* Math.max(gridStep * 1.6, 1e-3)
RingSpacing(gridStep) == MathMax(Mul(gridStep, Frac(16, 10)), Frac(1, 1000))

\* Math.max(gridStep * 6.0, 0.25)
SnapRadius(gridStep) == MathMax(Mul(gridStep, Num(6)), Frac(1, 4))

\* Math.round: the nearest integer, halves upwards
MathRound(a) == MathFloor(Add(a, Frac(1, 2)))

\* adjacency[i] after the loop over the triangles of the index buffer ix
Neighbors(ix, i) ==
  {ix[3 * t - 3 + m] :
     t \in {u \in 1..(Len(ix) \div 3) :
              \E k \in 1..3 : ix[3 * u - 3 + k] = i},
     m \in 1..3} \ {i}

\* avgX, avgY, avgZ before the division, over the neighbours in S
RECURSIVE SumPositions(_, _)
SumPositions(cur, S) ==
  IF S = {} THEN ZeroVec
  ELSE LET nb == CHOOSE x \in S : TRUE
       IN VAdd(cur[nb + 1], SumPositions(cur, S \ {nb}))

\* the Laplacian average of the neighbours
LaplacianAvg(cur, S) ==
  VFround(VScale(Inv(Num(Cardinality(S))), SumPositions(cur, S)))

\* sdfGradient: central differences, not normalized
sdfGradient(its, k, eps, p) ==
  VFround(Vec(CentralDifference(its, k, eps, p, 1),
              CentralDifference(its, k, eps, p, 2),
              CentralDifference(its, k, eps, p, 3)))

\* if (gLenSq > 1e-12) n = grad / sqrt(gLenSq) else n = (0, 1, 0)
SurfaceNormal(grad) ==
  IF Less(Num(0), LengthSq(grad))
    THEN VFround(VScale(Inv(MathSqrt(LengthSq(grad))), grad))
    ELSE Vec(Num(0), Num(1), Num(0))

\* (tdx, tdy, tdz): d without its part along n
Tangential(d, n) == VSub(d, VScale(Fround(Dot(d, n)), n))

\* px, py, pz after the tangent smoothing of vertex position c towards avg
Smoothed(c, avg, n) == VFround(VAdd(c, VScale(lambda, Tangential(VSub(avg, c), n))))

\* t = clamp((p - start) . dir, 0, length)
BoneT(p, bone) ==
  MathMax(Num(0),
          MathMin(bone.length, Fround(Dot(VSub(p, bone.start), bone.dir))))

\* dSq: squared distance from p to the point of the segment at t
BoneDistSq(p, bone) ==
  LengthSq(VSub(p, VAdd(bone.start, VScale(BoneT(p, bone), bone.dir))))

\* best after the loop over bones[j..]: the first bone of least dSq
RECURSIVE BestBone(_, _, _, _)
BestBone(p, bones, j, best) ==
  IF j > Len(bones) THEN best
  ELSE IF best = 0 \/ Less(BoneDistSq(p, bones[j]), BoneDistSq(p, bones[best]))
    THEN BestBone(p, bones, j + 1, j)
    ELSE BestBone(p, bones, j + 1, best)

\* (snappedT - bestT) * snapStrength
SnapShift(bestT, ringSpacing) ==
  Fround(Mul(Sub(Mul(MathRound(Div(bestT, ringSpacing)), ringSpacing), bestT),
             snapStrength))

SnapTo(p, bone, gridStep) ==
  IF Less(BoneDistSq(p, bone), Mul(SnapRadius(gridStep), SnapRadius(gridStep)))
    THEN VFround(VAdd(p, VScale(SnapShift(BoneT(p, bone), RingSpacing(gridStep)),
                                bone.dir)))
    ELSE p

\* lines 339-375: bone ring snapping
Snapped(p, bones, gridStep) ==
  IF Len(bones) = 0 THEN p
  ELSE SnapTo(p, bones[BestBone(p, bones, 1, 0)], gridStep)

\* lines 377-384: p -= grad * dist / (|grad|^2 + 1e-12); with grad = 0 the
\* quotient is 0, otherwise 1e-12 is below the resolution of the numbers
NewtonFrom(p, dist, grad) ==
  IF LengthSq(grad) = Num(0) THEN p
  ELSE VSub(p, VFround(VScale(Div(dist, LengthSq(grad)), grad)))

NewtonStep(its, k, eps, p) ==
  NewtonFrom(p, evaluate(its, k, p), sdfGradient(its, k, eps, p))

\* the position of vertex with neighbours S written to nextPositions (a
\* Float32Array) in one iteration, read from the positions cur
\* the values of n (line 318), of p before the projection (line 377) and of
\* the position written (lines 386-388) are computed one after the other
TheOnly(S) == CHOOSE x \in S : TRUE

RelaxFrom(its, k, gridStep, bones, c, avg) ==
  TheOnly({VFround(NewtonStep(its, k, RefineEps(gridStep), p)) :
             p \in {Snapped(Smoothed(c, avg, n), bones, gridStep) :
                      n \in {SurfaceNormal(
                               sdfGradient(its, k, RefineEps(gridStep), c))}}})

Relaxed(its, k, gridStep, bones, cur, i, S) ==
  IF S = {} THEN cur[i + 1]
  ELSE RelaxFrom(its, k, gridStep, bones, cur[i + 1], LaplacianAvg(cur, S))

\* extractBones(meshes): the callback of lines 193-215 on every node in turn
RECURSIVE BonesLoop(_, _, _)
BonesLoop(ms, i, st) ==
  IF i > Len(ms) \/ ~st.ok THEN st
  ELSE BonesLoop(ms, i + 1, BoneStep(ms, st, ms[i]))

extractBones(ms) ==
  BonesLoop(ms, 1, [cache |-> EmptyCache, segments |-> <<>>, last |-> null,
                    ok |-> TRUE])

\* new THREE.Float32BufferAttribute(vertices, 3): every coordinate stored as
\* a float
Float32Positions(pos) == [i \in DOMAIN pos |-> VFround(pos[i])]

\* the buffer the vertex loop reads (currentPositions), given cur =
\* currentPositions and nxt = nextPositions
ReadNextPositions(cur, nxt) == nxt

ReadPositions(cur, nxt) == cur

\* nextPositions after the body of the vertex loop for vertex i
RelaxInto(its, k, gridStep, bones, ix, cur, nxt, i) ==
  [nxt EXCEPT ![i + 1] =
     Relaxed(its, k, gridStep, bones, ReadPositions(cur, nxt), i,
             Neighbors(ix, i))]

\* nextPositions after the vertex loop from vertex i on, in index order
RECURSIVE VertexLoop(_, _, _, _, _, _, _, _)
VertexLoop(its, k, gridStep, bones, ix, cur, nxt, i) ==
  IF i >= Len(cur) THEN nxt
  ELSE TheOnly({VertexLoop(its, k, gridStep, bones, ix, cur, written, i + 1) :
                  written \in {RelaxInto(its, k, gridStep, bones, ix, cur, nxt,
                                         i)}})

\* a sphere of radius 1/4 meshed on a grid of step 2
SmallSphere ==
  [meshes |-> <<DEFAULT_PROCEDURE_MESH,
                [ResolveNode(1, null) EXCEPT !.scale = Frac(1, 2)]>>,
   resolution |-> Frac(1, 2), blendStrength |-> Frac(1, 4)]

\* argument lists of calls with smartRetopo = true: one sphere, a sphere
\* with a child (one bone), and the small sphere
RefineInputs ==
  {inp \in CallInputs :
     /\ ~EarlyReturn(inp.meshes)
     /\ \A i \in 1..Len(inp.meshes) : inp.meshes[i].type # "capsule"
     /\ \A i \in 1..Len(inp.meshes) : inp.meshes[i].scale # Num(3)}
  \cup {SmallSphere}

\* lines 405-803 and 222-270: the mesh is built, the bones are extracted and
\* both position buffers are filled from the position attribute
SetRefine(inp, r, b) ==
  /\ meshes' = inp.meshes
  /\ resolution' = inp.resolution
  /\ blendStrength' = inp.blendStrength
  /\ gpc' = "refine"
  /\ SetPass(r)
  /\ segments' = b.segments
  /\ currentPositions' = Float32Positions(r.grid.pass.positions)
  /\ nextPositions' = Float32Positions(r.grid.pass.positions)
  /\ reference' = Float32Positions(r.grid.pass.positions)
  /\ rpc' = "relax"
  /\ iter' = 0
  /\ done' = {}
  /\ UNCHANGED <<mpc, resolver, next, lastId, ppc, probe, probeD, history>>
  /\ UNCHANGED taskVars

StartRefine ==
  /\ rpc = "idle"
  /\ \E inp \in RefineInputs :
       SetRefine(inp, CallResult(inp), extractBones(inp.meshes))
  /\ UNCHANGED storeVars

\* the vertices not yet visited in this iteration
Unvisited == (0..(Len(currentPositions) - 1)) \ done

\* the least and the greatest element of a set of vertex indices
Ends(S) == {i \in S : (\A j \in S : i <= j) \/ (\A j \in S : j <= i)}

\* lines 294-388: the body of the vertex loop for a vertex not yet visited
\* in this iteration. The code visits them in index order; the orders
\* followed here take the least or the greatest unvisited vertex next
RelaxVertex ==
  /\ rpc = "relax"
  /\ iter < iterations
  /\ \E i \in Ends(Unvisited) :
       /\ nextPositions' =
            RelaxInto(items, blendStrength, avgStep(step), segments, indices,
                      currentPositions, nextPositions, i)
       /\ done' = done \cup {i}
  /\ UNCHANGED <<rpc, iter, currentPositions, reference>>
  /\ UNCHANGED <<meshVars, passVars, genVars, callVars, taskVars>>
  /\ UNCHANGED storeVars

\* line 391: currentPositions.set(nextPositions); iter++
EndIteration ==
  /\ rpc = "relax"
  /\ iter < iterations
  /\ Unvisited = {}
  /\ currentPositions' = nextPositions
  /\ reference' = VertexLoop(items, blendStrength, avgStep(step), segments,
                             indices, reference, reference, 0)
  /\ iter' = iter + 1
  /\ done' = {}
  /\ UNCHANGED <<rpc, nextPositions>>
  /\ UNCHANGED <<meshVars, passVars, genVars, callVars, taskVars>>
  /\ UNCHANGED storeVars

\* the position attribute seen through geometry.userData.quadWireframe: a
\* buffer of its own
OwnAttribute(old, new) == old

\* wireframeGeo.setAttribute('position', positionAttribute): the attribute
\* of the mesh itself
SameAttribute(old, new) == new

\* lines 394-400: the positions are written back and the geometry returned
WriteBack ==
  /\ rpc = "relax"
  /\ iter = iterations
  /\ positions' = currentPositions
  /\ wirePositions' = SameAttribute(wirePositions, currentPositions)
  /\ rpc' = "written"
  /\ gpc' = "done"
  /\ UNCHANGED <<iter, currentPositions, nextPositions, done, reference>>
  /\ UNCHANGED <<meshVars, passVars, history, taskVars>>
  /\ UNCHANGED <<resolution, box, step, numSamples, evaluatorBuilt>>
  /\ UNCHANGED storeVars

RefineInit ==
  /\ CallIdle
  /\ MeshIdle
  /\ PassIdle
  /\ GenIdle

RefineNext == StartRefine \/ RelaxVertex \/ EndIteration \/ WriteBack

RefineSpec == RefineInit /\ [][RefineNext]_vars

----------------------------------------------------------------------------
\* The sampling loop of generateIsosurfaceGeometry (sdf.ts 473-485) run as
\* parallel tasks, one for each grid corner: a task runs the loop body for
\* its corner, and the steps of the tasks in flight interleave.

\* argument lists: a sphere, and a sphere with a child
SampleInputs ==
  {inp \in CallInputs :
     /\ ~EarlyReturn(inp.meshes)
     /\ \A i \in 1..Len(inp.meshes) : inp.meshes[i].type # "capsule"
     /\ \A i \in 1..Len(inp.meshes) : inp.meshes[i].scale # Num(3)}

\* the point of corner i: box.min + (x, y, z) * step
CornerOf(i) ==
  CornerPoint(box, step, i % (gridRes + 1),
              (i \div (gridRes + 1)) % (gridRes + 1),
              i \div ((gridRes + 1) * (gridRes + 1)))

\* lines 405-474: the call up to the sampling loop; values is a new
\* Float32Array (filled with zeros) and probe a new Vector3
SetSampling(inp, bnd, ev) ==
  /\ meshes' = inp.meshes
  /\ resolution' = inp.resolution
  /\ blendStrength' = inp.blendStrength
  /\ IF bnd.ok /\ ev.ok
       THEN /\ SetGrid(ExpandByScalar(bnd.box, Num(1)),
                       GridResOf(inp.resolution), ev.items)
            /\ matrixCache' = ev.cache
            /\ values' = [i \in 0..(ValuesLength(GridResOf(inp.resolution)) - 1)
                            |-> 0]
       ELSE /\ gpc' = "RangeError"
            /\ UNCHANGED <<box, gridRes, step, items, evaluatorBuilt,
                           numSamples, matrixCache, values>>
  /\ probe' = ZeroVec
  /\ nextCorner' = 0
  /\ tasks' = {}
  /\ UNCHANGED <<resolver, next, lastId, segments, ppc, probeD>>
  /\ UNCHANGED <<mpc, cellToVertMap, vertices, skipped, quads, indices,
                 wireframeIndices, edgeSet>>
  /\ UNCHANGED <<callVars, refineVars>>

StartSampling ==
  /\ gpc = "idle"
  /\ \E inp \in SampleInputs :
       SetSampling(inp, BoundsOf(inp.meshes, inp.blendStrength),
                   ItemsOf(inp.meshes))
  /\ UNCHANGED storeVars

\* what the steps of a task leave alone
TaskFrame ==
  /\ UNCHANGED <<meshes, blendStrength, resolver, matrixCache, next, lastId,
                 segments, ppc, items, probeD>>
  /\ UNCHANGED <<mpc, gridRes, cellToVertMap, vertices, skipped, quads,
                 indices, wireframeIndices, edgeSet>>
  /\ UNCHANGED <<genVars, callVars, refineVars>>

\* line 479: the task of the next corner starts, probe.set(...)
TaskSet ==
  /\ gpc = "sampling"
  /\ nextCorner < numSamples
  /\ Cardinality(tasks) < MaxTasks
  /\ probe' = CornerOf(nextCorner)
  /\ tasks' = tasks \cup {[corner |-> nextCorner, pc |-> "evaluate",
                            d |-> Num(0)]}
  /\ nextCorner' = nextCorner + 1
  /\ UNCHANGED values
  /\ TaskFrame
  /\ UNCHANGED storeVars

\* line 480: const d = evaluate(probe)
TaskEvaluate ==
  /\ gpc = "sampling"
  /\ \E t \in tasks :
       /\ t.pc = "evaluate"
       /\ tasks' = (tasks \ {t})
            \cup {[t EXCEPT !.pc = "store",
                            !.d = evaluate(items, blendStrength, probe)]}
  /\ UNCHANGED <<probe, values, nextCorner>>
  /\ TaskFrame
  /\ UNCHANGED storeVars

\* lines 481-482: values[i] = d, and the task ends
TaskStore ==
  /\ gpc = "sampling"
  /\ \E t \in tasks :
       /\ t.pc = "store"
       /\ values' = [values EXCEPT ![t.corner] = SignClass(t.d)]
       /\ tasks' = tasks \ {t}
  /\ UNCHANGED <<probe, nextCorner>>
  /\ TaskFrame
  /\ UNCHANGED storeVars

SampleInit ==
  /\ CallIdle
  /\ MeshIdle
  /\ PassIdle
  /\ GenIdle

SampleNext == StartSampling \/ TaskSet \/ TaskEvaluate \/ TaskStore

SampleSpec == SampleInit /\ [][SampleNext]_vars

----------------------------------------------------------------------------
\* Claim C12.

\* the argument list of the call that ran last
LastInput ==
  [meshes |-> meshes, resolution |-> resolution,
   blendStrength |-> blendStrength]

----------------------------------------------------------------------------
\* Claims C13 and C14: the wireframe edge list.

\* number of edges in wireframeIndices (two indices per edge)
EdgeCount == Len(wireframeIndices) \div 2

\* C13: for every mesh produced, with Q the number of emitted quads and E
\* the number of edges of the deduplicated wireframe list, Q <= E <= 4 * Q.
C13_EdgeCountBetweenQAnd4Q ==
  mpc = "meshed" =>
    /\ Len(wireframeIndices) = 2 * EdgeCount
    /\ Len(quads) <= EdgeCount
    /\ EdgeCount <= 4 * Len(quads)

\* a mesh, some of whose quads share an edge
C13_Witness ==
  /\ mpc = "meshed"
  /\ Len(quads) > 1
  /\ EdgeCount < 4 * Len(quads)

\* the i-th edge of the wireframe list
WireEdge(w, i) == <<w[2 * i - 1], w[2 * i]>>

\* the edges of a wireframe list, as unordered pairs
WireSet(w) == {{w[2 * i - 1], w[2 * i]} : i \in 1..(Len(w) \div 2)}

\* the four boundary edges of a quad loop, as unordered pairs
LoopEdges(q) == {{q[1], q[2]}, {q[2], q[3]}, {q[3], q[4]}, {q[4], q[1]}}

BoundaryEdges(qs) == UNION {LoopEdges(qs[i]) : i \in DOMAIN qs}

\* the diagonal along which a quad is cut in two triangles (q0, q2), and the
\* other one
Diagonals(q) == {{q[1], q[3]}, {q[2], q[4]}}

\* the wireframe list of the same pass had no winding been reversed
UnreversedWire == AllQuads(values, gridRes, cellToVertMap, Pattern("never")).wire

----------------------------------------------------------------------------
\* Claim C15: winding of the output triangles.

Centroid(a, b, c) == VScale(Frac(1, 3), VAdd(VAdd(a, b), c))

\* the t-th triangle of the index buffer, as three positions
TrianglePoints(t) ==
  <<positions[indices[3 * t - 2] + 1], positions[indices[3 * t - 1] + 1],
    positions[indices[3 * t] + 1]>>

\* face normal of a triangle . field gradient at its centroid, the gradient
\* estimated as the pass estimates it (sdfNormal)
TriangleDot(tri) ==
  Dot(FaceNormal(tri[1], tri[2], tri[3]),
      sdfNormal(items, blendStrength, normalEps(step),
                Centroid(tri[1], tri[2], tri[3])))

NonNegative(a) == ~IsNaN(a) /\ ~Less(a, Num(0))

\* C15: after winding correction every triangle of the output index buffer,
\* both (q0,q1,q2) and (q0,q2,q3) of every emitted quad, has a face normal
\* whose dot product with the field gradient at the triangle's centroid is
\* non-negative.
C15_TrianglesFaceOutward ==
  gpc = "done" =>
    \A t \in 1..(Len(indices) \div 3) : NonNegative(TriangleDot(TrianglePoints(t)))

----------------------------------------------------------------------------
\* Claim C20: the segments of extractBones.

\* the nodes whose parentId names a node of the snapshot, in list order
EdgeChildren(ms) ==
  LET NamesPresentParent(m) == m.parentId # null /\ meshMapHas(ms, m.parentId)
  IN SelectSeq(ms, NamesPresentParent)

\* the resolved world position of a node: the translation of the product of
\* the local matrices from its outermost ancestor down to it
WorldPosition(ms, id) == MatrixPosition(ChainMatrix(ms, id))

\* the unit vector from start to end
UnitDirection(start, end) ==
  VScale(Inv(Length(VSub(end, start))), VSub(end, start))

\* C20: extractBones returns exactly one segment for every (parent, child)
\* edge of the tree, that is for every node whose parentId names a node
\* present in the snapshot; its start and end are the resolved world
\* positions of the parent and the child, its direction the unit vector from
\* start to end.
C20_OneSegmentPerEdge ==
  (resolver = "bones" /\ ppc = "run" /\ next > Len(meshes) /\ Acyclic(meshes))
    => /\ Len(segments) = Len(EdgeChildren(meshes))
       /\ \A i \in 1..Len(segments) :
            /\ segments[i].start
                 = WorldPosition(meshes, EdgeChildren(meshes)[i].parentId)
            /\ segments[i].end
                 = WorldPosition(meshes, EdgeChildren(meshes)[i].id)
            /\ segments[i].dir
                 = UnitDirection(segments[i].start, segments[i].end)

----------------------------------------------------------------------------
\* Claim C16.

\* nextPositions as the vertex loop in index order leaves them, started on
\* the positions cur
AfterVertexLoop(cur) ==
  VertexLoop(items, blendStrength, avgStep(step), segments, indices, cur, cur,
             0)

\* C16: in refineMesh the new position of every vertex is a function of the
\* positions held at the end of the previous iteration only, so that
\* visiting the vertices of an iteration in any order gives the position
\* buffer of the loop in index order, after that iteration (the positions
\* written are those of the loop in index order on the positions read) and
\* after all of them (the positions read, and at the end the positions
\* written back, are those of the loops in index order so far)
C16_OrderIndependentRelaxation ==
  /\ rpc = "relax" => currentPositions = reference
  /\ rpc = "relax" /\ Unvisited = {} /\ iter < iterations
       => nextPositions = AfterVertexLoop(currentPositions)
  /\ rpc = "written" => positions = reference

\* an iteration after the first that started with the last vertex, which
\* has a neighbour, moved
C16_Witness ==
  /\ rpc = "relax"
  /\ iter >= 1
  /\ segments # <<>>
  /\ done = {Len(currentPositions) - 1}
  /\ Neighbors(indices, Len(currentPositions) - 1) # {}
  /\ nextPositions[Len(currentPositions)]
       # currentPositions[Len(currentPositions)]
  /\ currentPositions = reference

----------------------------------------------------------------------------
\* Claim C18.

\* the vertex count, the triangle index buffer, the quad loops and the
\* wireframe edge list are left alone
C18_Frame ==
  /\ Len(positions') = Len(positions)
  /\ Len(wirePositions') = Len(wirePositions)
  /\ indices' = indices
  /\ quads' = quads
  /\ wireframeIndices' = wireframeIndices

\* the position seen through the wireframe is the one seen through the mesh
C18_SamePositions ==
  /\ Len(wirePositions) = Len(positions)
  /\ \A i \in 1..Len(positions) : wirePositions[i] = positions[i]

\* C18: refineMesh changes the position buffer only: the vertex count, the
\* triangle index buffer and the wireframe edge list are the same before
\* and after, and after the refinement the position seen through the
\* wireframe geometry is the position seen through the mesh, for every
\* vertex index
C18_RefineChangesPositionsOnly ==
  /\ [][rpc = "relax" => C18_Frame]_vars
  /\ [](rpc = "written" => C18_SamePositions)

\* the position attribute before refineMesh
UnrefinedPositions ==
  Float32Positions(
    PositionsOf(NumGrid(items, blendStrength, box, step, gridRes), box, step,
                gridRes, vertices))

\* refineMesh has returned and has moved a vertex
C18_Witness ==
  /\ rpc = "written"
  /\ positions # UnrefinedPositions
  /\ wirePositions = positions
  /\ indices # <<>>
  /\ wireframeIndices # <<>>

----------------------------------------------------------------------------
\* Claim C19.

\* |new position - position at the start of the iteration| of vertex i
Displacement(i) ==
  Length(VSub(nextPositions[i + 1], currentPositions[i + 1]))

\* snapRadius + lambda * |Laplacian target - current position| of vertex i
DisplacementBound(i) ==
  Add(SnapRadius(avgStep(step)),
      Mul(lambda,
          Length(VSub(LaplacianAvg(currentPositions, Neighbors(indices, i)),
                      currentPositions[i + 1]))))

\* C19: in every iteration of refineMesh the displacement of each vertex
\* from its position at the start of the iteration is at most snapRadius +
\* lambda * |Laplacian target - current position|, the Newton step included
C19_DisplacementBounded ==
  rpc = "relax" =>
    \A i \in done :
      Neighbors(indices, i) # {} =>
        ~Less(DisplacementBound(i), Displacement(i))

----------------------------------------------------------------------------
\* Claim C17.

\* every task of the sampling step has ended
SamplingEnded == gpc = "sampling" /\ nextCorner = numSamples /\ tasks = {}

\* C17: with the per-corner evaluations of the sampling step run as
\* interleaved parallel tasks, no task reads a location that another task
\* of the step writes (the probe a task evaluates is the one it has set),
\* and every interleaving ends with the sample array of the sequential
\* loop
C17_InterleavingsGiveSequentialSamples ==
  /\ gpc = "sampling" =>
       \A t \in tasks : t.pc = "evaluate" => probe = CornerOf(t.corner)
  /\ SamplingEnded =>
       values = SampleGrid(NumGrid(items, blendStrength, box, step, gridRes))

----------------------------------------------------------------------------
\* The zustand store of the node list (store.ts 61-160). set(...) replaces
\* the fields its updater returns; arrays and node objects live on a heap,
\* so that a list read earlier (a render's `meshes`) is a reference that a
\* later operation may or may not write through.

\* most nodes added in one run (uuidv4 never hands out an id twice)
MaxAdds == 2

\* most store calls that run between handleBake and the animation frame it
\* asked for
MaxDeferred == 2

\* the ids uuidv4 hands out
Uuids == {NodeIds[i] : i \in 1..MaxAdds}

\* ids a caller may name: ids handed out or still to come, and the container
KnownIds == Uuids \cup {PROCEDURE_MESH_ID}

IdIndex(id) == CHOOSE i \in 1..Len(NodeIds) : NodeIds[i] = id

\* a node as handleAddMesh and api.create build it
NewNode(id, parentId) == ResolveNode(IdIndex(id), parentId)

\* the node handleBake adds: 'custom', without parent
BakedNode(id) == [ResolveNode(IdIndex(id), null) EXCEPT !.type = "custom"]

\* the heap and the store state an operation starts from or ends in
Heap(arrs, objs, st) == [arrays |-> arrs, objects |-> objs, state |-> st]

\* the nodes of array ref, in order
Deref(h, ref) == [i \in 1..Len(h.arrays[ref]) |-> h.objects[h.arrays[ref][i]]]

\* state.meshes as a list of nodes
MeshesOf(h) == Deref(h, h.state.meshes)

Includes(ids, id) == \E i \in 1..Len(ids) : ids[i] = id

\* meshes.filter(m => m.parentId === id)
ChildrenOf(ms, id) == SelectSeq(ms, LAMBDA m : m.parentId = id)

\* getDescendants: [ok, ids]; ok is FALSE when the recursion has no end (the
\* parent relation has a cycle below id) and the call stack overflows. A
\* nesting deeper than the list is long has met some node twice.
RECURSIVE getDescendants(_, _, _)
RECURSIVE DescendantsLoop(_, _, _, _, _)
DescendantsLoop(ms, children, i, acc, depth) ==
  IF ~acc.ok \/ i > Len(children) THEN acc
  ELSE DescendantsLoop(ms, children, i + 1,
         TheOnly({[ok |-> d.ok, ids |-> acc.ids \o d.ids] :
                    d \in {getDescendants(ms, children[i].id, depth + 1)}}),
         depth)

\* only the children are gathered
getChildren(ms, id, depth) ==
  [ok |-> TRUE,
   ids |-> [i \in 1..Len(ChildrenOf(ms, id)) |-> ChildrenOf(ms, id)[i].id]]

getDescendants(ms, id, depth) ==
  IF depth > Len(ms) + 1 THEN [ok |-> FALSE, ids |-> <<>>]
  ELSE DescendantsLoop(ms, ChildrenOf(ms, id), 1,
         [ok |-> TRUE,
          ids |-> [i \in 1..Len(ChildrenOf(ms, id)) |->
                     ChildrenOf(ms, id)[i].id]],
         depth)

\* set({ meshes: arr }) with a newly allocated array
SetMeshes(h, arr, objs, selected) ==
  [arrays |-> Append(h.arrays, arr), objects |-> objs,
   state |-> [meshes |-> Len(h.arrays) + 1, selectedMeshId |-> selected]]

\* the mesh is pushed onto the array the state already holds
addMeshInPlace(h, mesh) ==
  [arrays |-> [h.arrays EXCEPT ![h.state.meshes] =
                 Append(@, Len(h.objects) + 1)],
   objects |-> Append(h.objects, mesh),
   state |-> [h.state EXCEPT !.selectedMeshId = mesh.id]]

\* addMesh: meshes: [...state.meshes, mesh], selectedMeshId: mesh.id
addMesh(h, mesh) ==
  SetMeshes(h, Append(h.arrays[h.state.meshes], Len(h.objects) + 1),
            Append(h.objects, mesh), mesh.id)

\* the selection is reset only when the removed node itself is selected
SelectionUnlessSelf(h, idsToRemove) ==
  IF h.state.selectedMeshId # null /\ h.state.selectedMeshId = idsToRemove[1]
    THEN null ELSE h.state.selectedMeshId

\* state.selectedMeshId && idsToRemove.includes(state.selectedMeshId)
\*   ? null : state.selectedMeshId
SelectionAfter(h, idsToRemove) ==
  IF h.state.selectedMeshId # null
     /\ Includes(idsToRemove, h.state.selectedMeshId)
    THEN null ELSE h.state.selectedMeshId

\* removeMesh below its guard; d is what getDescendants returned. A
\* RangeError thrown there leaves the updater before set stores anything.
RemoveIds(h, id, d) ==
  IF ~d.ok THEN h
  ELSE SetMeshes(h,
         SelectSeq(h.arrays[h.state.meshes],
           LAMBDA r : ~Includes(<<id>> \o d.ids, h.objects[r].id)),
         h.objects,
         SelectionAfter(h, <<id>> \o d.ids))

\* removeMesh
removeMesh(h, id) ==
  IF id = PROCEDURE_MESH_ID THEN h
  ELSE RemoveIds(h, id, getDescendants(MeshesOf(h), id, 1))

removeMeshThrows(h, id) ==
  id # PROCEDURE_MESH_ID /\ ~getDescendants(MeshesOf(h), id, 1).ok

\* selectMesh: set({ selectedMeshId })
selectMesh(h, selectedMeshId) ==
  [h EXCEPT !.state = [@ EXCEPT !.selectedMeshId = selectedMeshId]]

\* { ...m, ...updates }
Spread(m, updates) ==
  [f \in DOMAIN m |-> IF f \in DOMAIN updates THEN updates[f] ELSE m[f]]

\* positions of the nodes of state.meshes with the given id
Hits(h, id) ==
  {i \in 1..Len(h.arrays[h.state.meshes]) : MeshesOf(h)[i].id = id}

\* the k-th of these positions
HitAt(h, id, k) ==
  CHOOSE i \in Hits(h, id) : Cardinality({j \in Hits(h, id) : j <= i}) = k

\* state.meshes.map(m => m.id === id ? New(m) : m): a new array, a new
\* object for each node with the id, the other objects shared
MapHits(h, id, New(_)) ==
  SetMeshes(h,
    [i \in 1..Len(h.arrays[h.state.meshes]) |->
       IF i \in Hits(h, id)
         THEN Len(h.objects) + Cardinality({j \in Hits(h, id) : j <= i})
         ELSE h.arrays[h.state.meshes][i]],
    h.objects \o [k \in 1..Cardinality(Hits(h, id)) |->
                    New(MeshesOf(h)[HitAt(h, id, k)])],
    h.state.selectedMeshId)

\* updateMesh
updateMesh(h, id, updates) ==
  MapHits(h, id, LAMBDA m : Spread(m, updates))

\* toggleVisibility
toggleVisibility(h, id) ==
  MapHits(h, id, LAMBDA m : [m EXCEPT !.visible = ~m.visible])

\* meshes.find(m => m.id === id)
Find(ms, id) == ms[CHOOSE i \in 1..Len(ms) :
                     ms[i].id = id /\ \A j \in 1..(i - 1) : ms[j].id # id]

\* the while loop of setParent from current: "met" when it meets childId,
\* "ended" when it runs off the chain, "hang" when it never leaves the loop
\* (more rounds than the list has nodes: the chain runs in a cycle that
\* does not hold childId)
RECURSIVE WalkUp(_, _, _, _)
WalkUp(ms, childId, current, rounds) ==
  IF current = null THEN "ended"
  ELSE IF current = childId THEN "met"
  ELSE IF rounds > Len(ms) THEN "hang"
  ELSE WalkUp(ms, childId,
              IF meshMapHas(ms, current) THEN Find(ms, current).parentId
              ELSE null,
              rounds + 1)

\* what a setParent call comes to: "returned" or "hang"
setParentOutcome(h, childId, parentId) ==
  IF childId # parentId /\ parentId # PROCEDURE_MESH_ID
     /\ WalkUp(MeshesOf(h), childId, parentId, 1) = "hang"
    THEN "hang" ELSE "returned"

\* setParent
setParent(h, childId, parentId) ==
  IF childId = parentId THEN h
  ELSE IF parentId = PROCEDURE_MESH_ID THEN h
  ELSE IF WalkUp(MeshesOf(h), childId, parentId, 1) # "ended" THEN h
  ELSE MapHits(h, childId, LAMBDA m : [m EXCEPT !.parentId = parentId])

\* resetScene: meshes: [DEFAULT_PROCEDURE_MESH], selectedMeshId: null. The
\* array is new, the container object is the module's one.
resetScene(h) ==
  SetMeshes(h, <<1>>, h.objects, null)

\* the store after construction: object 1 is DEFAULT_PROCEDURE_MESH
InitialStore ==
  Heap(<<<<1>>>>, <<DEFAULT_PROCEDURE_MESH>>,
       [meshes |-> 1, selectedMeshId |-> null])

----------------------------------------------------------------------------
\* Garbage collection: the arrays and objects nothing refers to any more are
\* dropped and the references renumbered, the array of the state first.

\* the references of refs in the order of their first occurrence
RECURSIVE FirstSeen(_, _, _)
FirstSeen(refs, i, acc) ==
  IF i > Len(refs) THEN acc
  ELSE FirstSeen(refs, i + 1,
                 IF Includes(acc, refs[i]) THEN acc ELSE Append(acc, refs[i]))

PositionIn(seq, x) == CHOOSE i \in 1..Len(seq) : seq[i] = x

\* the arrays still referred to: by the state, by a pending callback
LiveArrays(h, bk) ==
  IF bk = 0 \/ bk = h.state.meshes THEN <<h.state.meshes>>
  ELSE <<h.state.meshes, bk>>

\* the objects still referred to: DEFAULT_PROCEDURE_MESH (a module constant)
\* and the elements of the live arrays
LiveObjects(h, live) ==
  FirstSeen(<<1>> \o h.arrays[live[1]]
              \o (IF Len(live) = 2 THEN h.arrays[live[2]] ELSE <<>>),
            1, <<>>)

Renumbered(h, bk, live, order) ==
  [arrays |-> [k \in 1..Len(live) |->
                 [j \in 1..Len(h.arrays[live[k]]) |->
                    PositionIn(order, h.arrays[live[k]][j])]],
   objects |-> [i \in 1..Len(order) |-> h.objects[order[i]]],
   state |-> [h.state EXCEPT !.meshes = 1],
   bake |-> IF bk = 0 THEN 0 ELSE PositionIn(live, bk)]

Collect(h, bk) ==
  Renumbered(h, bk, LiveArrays(h, bk), LiveObjects(h, LiveArrays(h, bk)))

----------------------------------------------------------------------------
\* The calls on the store. uuidv4 draws the id of a new node from the ids it
\* has not handed out; a parent named at creation is null or a listed node
\* (handleAddMesh: the selected node; api.create: its argument).

Now == Heap(arrays, objects, state)

\* the stored node list
StoredMeshes == MeshesOf(Now)

Listed(id) == meshMapHas(StoredMeshes, id)

\* the state when the call returns (or does not): c is the collected heap
SetStore(c, result) ==
  /\ bake # 0 => deferred < MaxDeferred
  /\ deferred' = IF bake = 0 THEN 0 ELSE deferred + 1
  /\ arrays' = c.arrays
  /\ objects' = c.objects
  /\ state' = c.state
  /\ bake' = c.bake
  /\ outcome' = result
  /\ UNCHANGED <<meshVars, passVars, genVars, callVars, refineVars, taskVars>>

Responsive == outcome # "hang"

AddMeshCall(id, parentId) ==
  /\ Responsive
  /\ id \in uuids
  /\ parentId = null \/ Listed(parentId)
  /\ SetStore(Collect(addMesh(Now, NewNode(id, parentId)), bake), "returned")
  /\ uuids' = uuids \ {id}

AddMesh == \E id \in Uuids, parentId \in KnownIds \cup {null} :
             AddMeshCall(id, parentId)

RemoveMeshCall(id) ==
  /\ Responsive
  /\ SetStore(Collect(removeMesh(Now, id), bake),
              IF removeMeshThrows(Now, id) THEN "RangeError" ELSE "returned")
  /\ UNCHANGED uuids

RemoveMesh == \E id \in KnownIds : RemoveMeshCall(id)

SelectMeshCall(id) ==
  /\ Responsive
  /\ id = null \/ Listed(id)
  /\ SetStore(Collect(selectMesh(Now, id), bake), "returned")
  /\ UNCHANGED uuids

SelectMesh == \E id \in KnownIds \cup {null} : SelectMeshCall(id)

\* api.hide and api.show
UpdateMesh ==
  /\ Responsive
  /\ \E id \in KnownIds, visible \in BOOLEAN :
       SetStore(Collect(updateMesh(Now, id, [visible |-> visible]), bake),
                "returned")
  /\ UNCHANGED uuids

ToggleVisibility ==
  /\ Responsive
  /\ \E id \in KnownIds :
       SetStore(Collect(toggleVisibility(Now, id), bake), "returned")
  /\ UNCHANGED uuids

SetParentCall(childId, parentId) ==
  /\ Responsive
  /\ SetStore(Collect(setParent(Now, childId, parentId), bake),
              setParentOutcome(Now, childId, parentId))
  /\ UNCHANGED uuids

SetParent == \E childId \in KnownIds, parentId \in KnownIds \cup {null} :
               SetParentCall(childId, parentId)

ResetScene ==
  /\ Responsive
  /\ SetStore(Collect(resetScene(Now), bake), "returned")
  /\ UNCHANGED uuids

StoreInit ==
  /\ arrays = InitialStore.arrays
  /\ objects = InitialStore.objects
  /\ state = InitialStore.state
  /\ bake = 0
  /\ deferred = 0
  /\ uuids = Uuids
  /\ outcome = "returned"
  /\ MeshIdle
  /\ PassIdle
  /\ GenIdle
  /\ history = EmptyMap
  /\ positions = <<>>
  /\ wirePositions = <<>>
  /\ RefineIdle
  /\ TaskIdle

StoreNext ==
  \/ AddMesh
  \/ RemoveMesh
  \/ SelectMesh
  \/ UpdateMesh
  \/ ToggleVisibility
  \/ SetParent
  \/ ResetScene

StoreSpec == StoreInit /\ [][StoreNext]_vars

----------------------------------------------------------------------------
\* handleBake (part_002 162-191): the click handler reads the render's
\* `meshes` and defers the meshing pass to the next animation frame; the
\* callback then meshes that list and adds the baked node. Store calls may
\* run in between. A bake is scheduled only while uuidv4 has an id left for
\* the baked node.

\* the list the pending callback holds
Captured == Deref(Now, bake)

\* meshes.find(m => !m.parentId && m.id !== PROCEDURE_MESH_ID) finds a node
HasGuideRoot ==
  \E i \in 1..Len(StoredMeshes) :
    StoredMeshes[i].parentId = null /\ StoredMeshes[i].id # PROCEDURE_MESH_ID

HandleBake ==
  /\ Responsive
  /\ bake = 0
  /\ HasGuideRoot
  /\ uuids # {}
  /\ bake' = state.meshes
  /\ deferred' = 0
  /\ outcome' = "returned"
  /\ UNCHANGED <<arrays, objects, state, uuids>>
  /\ UNCHANGED <<meshVars, passVars, genVars, callVars, refineVars, taskVars>>

\* the requestAnimationFrame callback: generateIsosurfaceGeometry(meshes, ...)
\* on the captured list, then addMesh of the baked node
BakeFrame ==
  /\ Responsive
  /\ bake # 0
  /\ meshes' = Captured
  /\ \E bakeId \in uuids :
       /\ arrays' = Collect(addMesh(Now, BakedNode(bakeId)), 0).arrays
       /\ objects' = Collect(addMesh(Now, BakedNode(bakeId)), 0).objects
       /\ state' = Collect(addMesh(Now, BakedNode(bakeId)), 0).state
       /\ uuids' = uuids \ {bakeId}
  /\ bake' = 0
  /\ deferred' = 0
  /\ outcome' = "returned"
  /\ UNCHANGED <<blendStrength, resolver, matrixCache, next, lastId, segments,
                 ppc, items, probe, probeD>>
  /\ UNCHANGED <<meshVars, genVars, callVars, refineVars, taskVars>>

BakeNext ==
  \/ AddMesh
  \/ RemoveMesh
  \/ SelectMesh
  \/ UpdateMesh
  \/ ToggleVisibility
  \/ SetParent
  \/ ResetScene
  \/ HandleBake
  \/ BakeFrame

BakeSpec == StoreInit /\ [][BakeNext]_vars

----------------------------------------------------------------------------
\* C21: from the initial store and after any sequence of addMesh (unused
\* id, parentId null or the id of a listed node), removeMesh, setParent,
\* toggleVisibility, selectMesh, resetScene and updateMesh calls that keep
\* id and parentId, the parent relation of the stored list is acyclic: no
\* node is its own ancestor.
C21_StoredListAcyclic == Acyclic(StoredMeshes)

\* C27: in every store state reached by addMesh (unused id, parentId null
\* or the id of a listed node), removeMesh, setParent, toggleVisibility,
\* resetScene and updateMesh calls that keep id and parentId, the container
\* PROCEDURE_MESH_ROOT is in the list, has no parent, and is the parent of
\* no node.
C27_ContainerApart ==
  /\ meshMapHas(StoredMeshes, PROCEDURE_MESH_ID)
  /\ \A i \in 1..Len(StoredMeshes) :
       /\ StoredMeshes[i].id = PROCEDURE_MESH_ID =>
            StoredMeshes[i].parentId = null
       /\ StoredMeshes[i].parentId # PROCEDURE_MESH_ID

\* x is node id or has it among its ancestors: the parentId links lead from
\* x to id in at most fuel steps
RECURSIVE ReachesUp(_, _, _, _)
ReachesUp(ms, x, id, fuel) ==
  \/ x = id
  \/ /\ fuel > 0
     /\ meshMapHas(ms, x)
     /\ Find(ms, x).parentId # null
     /\ ReachesUp(ms, Find(ms, x).parentId, id, fuel - 1)

\* id or one of its descendants is selected
SelectedBelow(id) ==
  /\ state.selectedMeshId # null
  /\ ReachesUp(StoredMeshes, state.selectedMeshId, id, Len(StoredMeshes))

SelectionListed ==
  state.selectedMeshId = null \/ Listed(state.selectedMeshId)

\* a removeMesh(id) call that gets to remove: not on the container, and
\* returning
Removing(id) ==
  RemoveMeshCall(id) /\ id # PROCEDURE_MESH_ID /\ outcome' = "returned"

\* C28: in every store state reached by addMesh, removeMesh, setParent,
\* toggleVisibility, resetScene, updateMesh calls that keep the id, and
\* selectMesh calls with null or the id of a listed node, selectedMeshId is
\* null or the id of a listed node; removeMesh sets it to null exactly when
\* the selected node is the removed node or one of its descendants, and
\* leaves it alone otherwise.
C28_SelectionListed ==
  /\ []SelectionListed
  /\ [][\A id \in KnownIds :
          /\ Removing(id) =>
               state'.selectedMeshId =
                 IF SelectedBelow(id) THEN null ELSE state.selectedMeshId
          /\ (RemoveMeshCall(id) /\ ~Removing(id)) =>
               state'.selectedMeshId = state.selectedMeshId]_vars

\* a node has been removed (both ids are handed out, one node is left beside
\* the container) and nothing is selected
C28_Witness ==
  /\ uuids = {}
  /\ Len(StoredMeshes) = 2
  /\ Listed(PROCEDURE_MESH_ID)
  /\ state.selectedMeshId = null
  /\ outcome = "returned"

\* the list with the parentId of the nodes childId set, all else as it was
Reparented(ms, childId, parentId) ==
  [i \in 1..Len(ms) |->
     IF ms[i].id = childId THEN [ms[i] EXCEPT !.parentId = parentId]
     ELSE ms[i]]

\* the cases in which setParent is to change nothing
Refused(childId, parentId) ==
  \/ parentId = childId
  \/ parentId = PROCEDURE_MESH_ID
  \/ /\ parentId # null
     /\ ReachesUp(StoredMeshes, parentId, childId, Len(StoredMeshes))

\* C25: setParent(childId, parentId) leaves the whole store state unchanged
\* when parentId equals childId, when parentId is the container, or when
\* childId is met on the walk up the parent chain from parentId; in every
\* other case it returns with only the parentId field of node childId
\* changed: every other node, the order of the list and the selection are
\* as before.
C25_SetParentEffect ==
  [][\A childId \in KnownIds, parentId \in KnownIds \cup {null} :
       SetParentCall(childId, parentId) =>
         /\ outcome' = "returned"
         /\ state'.selectedMeshId = state.selectedMeshId
         /\ StoredMeshes' =
              IF Refused(childId, parentId) THEN StoredMeshes
              ELSE Reparented(StoredMeshes, childId, parentId)]_vars

\* the nodes of ms that are neither id nor below it, in their order
Outside(ms, id) ==
  SelectSeq(ms, LAMBDA m : ~ReachesUp(ms, m.id, id, Len(ms)))

\* C26: on an acyclic list, removeMesh(id) for an id other than the
\* container removes exactly node id and all its transitive descendants;
\* every other node stays, unchanged and in its order, so that no node is
\* left whose parent this call removed.
C26_RemovesSubtree ==
  [][\A id \in KnownIds \ {PROCEDURE_MESH_ID} :
       (Acyclic(StoredMeshes) /\ RemoveMeshCall(id)) =>
         /\ outcome' = "returned"
         /\ StoredMeshes' = Outside(StoredMeshes, id)
         /\ \A i \in 1..Len(StoredMeshes') :
              \/ StoredMeshes'[i].parentId = null
              \/ ~meshMapHas(StoredMeshes, StoredMeshes'[i].parentId)
              \/ meshMapHas(StoredMeshes', StoredMeshes'[i].parentId)]_vars

\* both ids are handed out and removeMesh has emptied the list, the
\* container gone with the subtree it was set into
C26_Witness ==
  /\ uuids = {}
  /\ Len(StoredMeshes) = 0
  /\ outcome = "returned"

\* C22: a node list read from the store is an immutable snapshot: no later
\* store operation changes the length, the order or a node field of a list
\* obtained before it, so the deferred bake callback meshes the list exactly
\* as it was when handleBake captured it.
C22_SnapshotImmutable ==
  [][/\ (bake # 0 /\ bake' # 0) => Captured' = Captured
     /\ (bake # 0 /\ bake' = 0) => meshes' = Captured]_vars

\* a bake is pending and the store has moved on from the captured list
C22_Witness ==
  /\ bake # 0
  /\ StoredMeshes # Captured

----------------------------------------------------------------------------
\* the grid corners on the outer boundary of the sample grid
OuterCorners ==
  {p \in CornersOf(gridRes) : \E i \in 1..3 : p[i] \in {0, gridRes}}

\* all of them on one side of the surface, as the mesher tells the sides
\* (v > 0); corners of one sign are on one side
OuterUniform ==
  \E side \in BOOLEAN : \A p \in OuterCorners : (SampleAt(p) > 0) = side

\* the quads that have e among their four boundary edges
QuadsAt(e) == {i \in DOMAIN quads : e \in LoopEdges(quads[i])}

----------------------------------------------------------------------------
\* The cell loop with the vertex positions (sdf.ts 503-639), run on sampled
\* grids whose samples differ in magnitude.

\* the samples of a grid are 0 or of magnitude 1..MaxWeight
MaxWeight == 3

\* corner i holds g[i] times 1, 2, ... or MaxWeight
Weighted(g) == [i \in DOMAIN g |-> g[i] * (1 + (i % MaxWeight))]

\* every sign pattern of a grid of at most one cell; a larger grid holds a
\* background value and another value on one corner
PlaceGrids(n) ==
  IF n <= 1 THEN {Weighted(g) : g \in [0..(NumCorners(n) - 1) -> SampleVals]}
  ELSE {Weighted([i \in 0..(NumCorners(n) - 1) |->
                    IF i = c THEN fv ELSE bg]) :
          c \in 0..(NumCorners(n) - 1), bg \in {-1, 1}, fv \in SampleVals}

\* bounds.min and step of the grids: the unit grid at the origin, and a grid
\* with a different origin and step on each axis
PlaceFrames ==
  {[min |-> ZeroVec, step |-> Vec(Num(1), Num(1), Num(1))],
   [min |-> Vec(Num(-1), Num(0), Frac(1, 2)),
    step |-> Vec(Num(1), Num(2), Frac(1, 2))]}

\* the Float32Array of samples as numbers
SamplesOf(vals) == [i \in DOMAIN vals |-> Num(vals[i])]

PlaceInit ==
  /\ mpc = "sampled"
  /\ gridRes \in 0..MaxGridRes
  /\ values \in PlaceGrids(gridRes)
  /\ \E f \in PlaceFrames :
       /\ box = [min |-> f.min,
                 max |-> VAdd(f.min, VScale(Num(gridRes), f.step))]
       /\ step = f.step
  /\ cellToVertMap = EmptyMap
  /\ vertices = <<>>
  /\ skipped = {}
  /\ quads = <<>>
  /\ indices = <<>>
  /\ wireframeIndices = <<>>
  /\ edgeSet = {}
  /\ gpc = "idle"
  /\ resolution = Num(0)
  /\ numSamples = 0
  /\ evaluatorBuilt = FALSE
  /\ PassIdle
  /\ CallIdle

\* lines 503-639: the cell loop, vertices.push(sumX / count, ...) included
PlaceCrossings ==
  /\ mpc = "sampled"
  /\ SetPlaced(PlaceFrom(values, gridRes, 0, NewPlacement))
  /\ positions' =
       PositionsOf(SamplesOf(values), box, step, gridRes,
                   PlaceFrom(values, gridRes, 0, NewPlacement).verts)
  /\ mpc' = "placed"
  /\ UNCHANGED <<gridRes, values, quads, indices, wireframeIndices, edgeSet>>
  /\ UNCHANGED <<passVars, genVars, history, wirePositions>>
  /\ UNCHANGED <<refineVars, taskVars, storeVars>>

PlaceNext == PlaceCrossings

PlaceSpec == PlaceInit /\ [][PlaceNext]_vars

----------------------------------------------------------------------------
\* Claim C24.

LessEq(a, b) == a = b \/ Less(a, b)

\* the x, y, z of a cell
CellXYZ(n, cell) == <<cell % n, (cell \div n) % n, cell \div (n * n)>>

\* the closed box of the cell holds point p
InCell(n, cell, p) ==
  LET c  == CellXYZ(n, cell)
      lo == CornerPoint(box, step, c[1], c[2], c[3])
      hi == CornerPoint(box, step, c[1] + 1, c[2] + 1, c[3] + 1)
  IN  \A i \in 1..3 : LessEq(lo[i], p[i]) /\ LessEq(p[i], hi[i])

\* the samples at the ends of the e-th edge of a cell
EdgeSamples(n, cell, e) ==
  LET c == CellXYZ(n, cell)
      a == CellCorner(c[1], c[2], c[3], CellEdges[e][1])
      b == CellCorner(c[1], c[2], c[3], CellEdges[e][2])
  IN  <<Num(values[CornerIndex(n, a[1], a[2], a[3])]),
        Num(values[CornerIndex(n, b[1], b[2], b[3])])>>

\* the edge is one the cell loop interpolates on
Interpolated(v) == Less(Num(0), v[1]) # Less(Num(0), v[2])

\* one sample > 0 and the other <= 0, so valA - valB is not 0, and
\* t = valA / (valA - valB) is in [0, 1]
WeightInUnit(v) ==
  /\ \/ Less(Num(0), v[1]) /\ LessEq(v[2], Num(0))
     \/ Less(Num(0), v[2]) /\ LessEq(v[1], Num(0))
  /\ Sub(v[1], v[2]) # Num(0)
  /\ LessEq(Num(0), Div(v[1], Sub(v[1], v[2])))
  /\ LessEq(Div(v[1], Sub(v[1], v[2])), Num(1))

\* C24: every vertex the cell loop emits lies in the closed box of its own
\* cell: the interpolation weight t = va / (va - vb) is computed only on
\* edges with one sample > 0 and the other <= 0, where its denominator is
\* not 0 and 0 <= t <= 1, and the mean of the crossings is within the cell
\* on every axis.
C24_VertexInsideItsCell ==
  mpc = "placed" =>
    \A v \in 1..Len(vertices) :
      /\ \A e \in 1..12 :
           LET ends == EdgeSamples(gridRes, vertices[v].cell, e)
           IN  Interpolated(ends) => WeightInUnit(ends)
      /\ InCell(gridRes, vertices[v].cell, positions[v])

\* a vertex is placed off the unit grid: one of its crossings is at a corner
\* that holds 0, and it is on no face of its cell
C24_Witness ==
  /\ mpc = "placed"
  /\ box.min # ZeroVec
  /\ \E v \in 1..Len(vertices) :
       \E e \in 1..12 :
         /\ Interpolated(EdgeSamples(gridRes, vertices[v].cell, e))
         /\ EdgeSamples(gridRes, vertices[v].cell, e)[2] = Num(0)
  /\ \E v \in 1..Len(vertices) :
       LET c  == CellXYZ(gridRes, vertices[v].cell)
           lo == CornerPoint(box, step, c[1], c[2], c[3])
           hi == CornerPoint(box, step, c[1] + 1, c[2] + 1, c[3] + 1)
       IN  \A i \in 1..3 :
             Less(lo[i], positions[v][i]) /\ Less(positions[v][i], hi[i])

----------------------------------------------------------------------------
\* Meshing the stored scene (generateIsosurfaceGeometry on state.meshes)
\* between changes of the visible flags.

\* argument lists whose node list the store holds
SceneInputs == CallInputs \cup {SmallSphere}

\* a heap that holds the node list ms as state.meshes
HeapOf(ms) ==
  Heap(<<[i \in 1..Len(ms) |-> i]>>, ms,
       [meshes |-> 1, selectedMeshId |-> null])

SceneInit ==
  /\ \E inp \in SceneInputs :
       /\ arrays = HeapOf(inp.meshes).arrays
       /\ objects = HeapOf(inp.meshes).objects
       /\ state = HeapOf(inp.meshes).state
       /\ resolution = inp.resolution
       /\ blendStrength = inp.blendStrength
  /\ bake = 0
  /\ deferred = 0
  /\ uuids = {}
  /\ outcome = "returned"
  /\ meshes = <<>>
  /\ resolver = "none"
  /\ matrixCache = EmptyCache
  /\ next = 1
  /\ lastId = null
  /\ segments = <<>>
  /\ ppc = "idle"
  /\ items = <<>>
  /\ probe = ZeroVec
  /\ probeD = Num(0)
  /\ gpc = "idle"
  /\ box = EmptyBox
  /\ step = ZeroVec
  /\ numSamples = 0
  /\ evaluatorBuilt = FALSE
  /\ history = EmptyMap
  /\ positions = <<>>
  /\ wirePositions = <<>>
  /\ MeshIdle
  /\ RefineIdle
  /\ TaskIdle

\* generateIsosurfaceGeometry(meshes, resolution, false, blendStrength) on
\* the stored list
SetScene(r) ==
  /\ meshes' = StoredMeshes
  /\ gpc' = r.gpc
  /\ IF r.gpc = "done" THEN SetPass(r) ELSE SetEmpty
  /\ UNCHANGED <<mpc, resolver, next, lastId, segments, ppc, probe, probeD>>
  /\ UNCHANGED <<resolution, blendStrength, history>>
  /\ UNCHANGED <<refineVars, taskVars, storeVars>>

MeshScene ==
  SetScene(CallResult([meshes |-> StoredMeshes, resolution |-> resolution,
                       blendStrength |-> blendStrength]))

SceneNext == ToggleVisibility \/ UpdateMesh \/ MeshScene

SceneSpec == SceneInit /\ [][SceneNext]_vars

----------------------------------------------------------------------------
\* Claim C29.

\* the scalar field (the evaluator's items, the grid and its samples) and
\* the mesh extracted from it
FieldAndMesh ==
  <<gpc, items, box, gridRes, step, values, vertices, positions, quads,
    indices, wireframeIndices>>

\* C29: the scalar field and the extracted mesh do not depend on the visible
\* flag of any node: once the stored scene is meshed, whatever
\* toggleVisibility, hide and show calls follow, meshing it again with the
\* same parameters gives the same field and the same mesh.
C29_MeshIgnoresVisible ==
  [][gpc # "idle" => FieldAndMesh' = FieldAndMesh]_vars

\* the scene was meshed with a primitive hidden, and the mesh is not empty
C29_Witness ==
  /\ gpc = "done"
  /\ meshes = StoredMeshes
  /\ \E i \in 1..Len(meshes) : NotContainer(meshes[i]) /\ ~meshes[i].visible
  /\ Len(vertices) > 0
  /\ Len(quads) > 0

----------------------------------------------------------------------------
\* Claim C30.

\* the three resolvers called for node id on the snapshot, each with an empty
\* memo table: they return, with the same matrix, the position extractBones
\* uses is the translation of that matrix, and a matrix the pass has in its
\* memo table for the node is that matrix
ResolversAgree(id, evaluator, bounds, bones) ==
  /\ evaluator.ok
  /\ bounds.ok
  /\ bones.ok
  /\ bounds.m = evaluator.m
  /\ bones.cache[id] = evaluator.m
  /\ bones.position = MatrixPosition(evaluator.m)
  /\ id \in DOMAIN matrixCache => matrixCache[id] = evaluator.m

ResolversAgreeOn(id) ==
  ResolversAgree(id, getWorldMatrix(meshes, EmptyCache, id, 1),
                 getWorldMatrixBounds(meshes, EmptyCache, id, 1),
                 getWorldPosition(meshes, EmptyCache, id))

\* C30: on every acyclic snapshot (dangling parent references included) and
\* for every node, the evaluator's memoized getWorldMatrix, the mesher's
\* bounds getWorldMatrix and the parent walk of extractBones give the same
\* world transform, so the position used for the bounding box and for bone
\* endpoints is the position of the primitive in the scalar field; the
\* matrices a pass of any of the three has in its memo table are these.
C30_ResolversAgree ==
  Acyclic(meshes) =>
    /\ \A i \in 1..Len(meshes) : ResolversAgreeOn(meshes[i].id)
    /\ \A id \in DOMAIN matrixCache : meshMapHas(meshes, id)

\* a pass of the bounds estimate has finished on an acyclic snapshot that
\* holds a node with a dangling parent and a node with a grandparent
C30_Witness ==
  /\ resolver = "bounds"
  /\ ppc = "run"
  /\ Acyclic(meshes)
  /\ next > Len(activeMeshes(meshes))
  /\ \E id \in DOMAIN matrixCache : DanglingId(id)
  /\ \E id \in DOMAIN matrixCache :
       Len(PathDown(meshes, id, Len(meshes))) >= 3

====
